---- MODULE Spec2Model ----
(***************************************************************************)
(* A model of the Jira workflow scripts of work-on-ticket/scripts:         *)
(*   start-work.py   the orchestrator main(), the JiraClient, slugify,     *)
(*                   create_branch, determine_branch_type                  *)
(*   jira_config.py  JiraConfig.get_profile, validate_profile, get_config  *)
(*   fetch-ticket.py main() and its JiraClient's get_issue and            *)
(*                   get_transitions                                       *)
(*                                                                         *)
(* Python strings are sequences of one-character strings, so that         *)
(* lower(), the regular expressions, strip() and slicing are computed.     *)
(***************************************************************************)
EXTENDS Integers, Sequences, FiniteSets, TLC

(***************************************************************************)
(* Bounds of the model.                                                    *)
(***************************************************************************)
\* Longest free tail of a slugify input (after the padding of letters).
MaxTail == 3
\* Runs of the orchestrator in the same working tree.
MaxRuns == 2
\* Leading characters of an issue type whose case is varied.
MaxCased == 3

(***************************************************************************)
(* Characters and strings.                                                 *)
(***************************************************************************)
None == "None"

LowerChars ==
  <<"a","b","c","d","e","f","g","h","i","j","k","l","m",
    "n","o","p","q","r","s","t","u","v","w","x","y","z">>
UpperChars ==
  <<"A","B","C","D","E","F","G","H","I","J","K","L","M",
    "N","O","P","Q","R","S","T","U","V","W","X","Y","Z">>

Range(s) == {s[i] : i \in DOMAIN s}

\* Letters outside ASCII that Python's \w matches too: one lowercase and one
\* uppercase representative, each a single character named by its code point.
NonAsciiLower == "U+00E9"
NonAsciiUpper == "U+00C9"

Digits == {"0","1","2","3","4","5","6","7","8","9"}
AsciiLetters == Range(LowerChars) \cup Range(UpperChars)
Whitespace == {" ", "\t"}

\* str.lower() on one character.
LowerChar(c) ==
  IF c \in Range(UpperChars)
    THEN LowerChars[CHOOSE i \in DOMAIN UpperChars : UpperChars[i] = c]
    ELSE IF c = NonAsciiUpper THEN NonAsciiLower ELSE c

\* str.upper() on one character.
UpperChar(c) ==
  IF c \in Range(LowerChars)
    THEN UpperChars[CHOOSE i \in DOMAIN LowerChars : LowerChars[i] = c]
    ELSE IF c = NonAsciiLower THEN NonAsciiUpper ELSE c

\* str.lower()
Lower(s) == [i \in DOMAIN s |-> LowerChar(s[i])]

\* \w of a str pattern: Unicode letters and digits, and the underscore.
IsWordChar(c) ==
  c \in AsciiLetters \cup Digits \cup {"_", NonAsciiLower, NonAsciiUpper}

\* \s of a str pattern.
IsSpaceChar(c) == c \in Whitespace

\* text[:n]
Take(s, n) == IF Len(s) <= n THEN s ELSE SubSeq(s, 1, n)

\* n copies of the character c.
Repeat(c, n) == [i \in 1..n |-> c]

(***************************************************************************)
(* slugify (start-work.py 110-119).                                        *)
(***************************************************************************)
SlugMaxLen == 50

\* re.sub(r'[^\w\s-]', '', text): drop every character that is neither a
\* word character, nor whitespace, nor a hyphen.
KeptChar(c) == IsWordChar(c) \/ IsSpaceChar(c) \/ c = "-"
RemoveSpecial(s) == SelectSeq(s, KeptChar)

\* re.sub(r'[-\s]+', '-', text): each maximal run of hyphens and whitespace
\* becomes one hyphen.
IsSep(c) == c = "-" \/ IsSpaceChar(c)
RECURSIVE CollapseSeps(_)
CollapseSeps(s) ==
  IF s = <<>> THEN <<>>
  ELSE IF IsSep(Head(s))
    THEN IF Len(s) >= 2 /\ IsSep(s[2])
           THEN CollapseSeps(Tail(s))
           ELSE <<"-">> \o CollapseSeps(Tail(s))
    ELSE <<Head(s)>> \o CollapseSeps(Tail(s))

\* text.strip('-')
RECURSIVE LStripHyphen(_)
LStripHyphen(s) ==
  IF s # <<>> /\ Head(s) = "-" THEN LStripHyphen(Tail(s)) ELSE s
RECURSIVE RStripHyphen(_)
RStripHyphen(s) ==
  IF s # <<>> /\ s[Len(s)] = "-"
    THEN RStripHyphen(SubSeq(s, 1, Len(s) - 1)) ELSE s
StripHyphen(s) == RStripHyphen(LStripHyphen(s))

slugify(text) ==
  Take(StripHyphen(CollapseSeps(RemoveSpecial(Lower(text)))), SlugMaxLen)

(***************************************************************************)
(* determine_branch_type (start-work.py 201-211).                          *)
(***************************************************************************)
Feature  == <<"f","e","a","t","u","r","e">>
Bugfix   == <<"b","u","g","f","i","x">>
Hotfix   == <<"h","o","t","f","i","x">>
Refactor == <<"r","e","f","a","c","t","o","r">>
BranchTypes == {Feature, Bugfix, Hotfix, Refactor}

Bug         == <<"B","u","g">>
Story       == <<"S","t","o","r","y">>
Task        == <<"T","a","s","k">>
Epic        == <<"E","p","i","c">>
Subtask     == <<"S","u","b","t","a","s","k">>
Improvement == <<"I","m","p","r","o","v","e","m","e","n","t">>

\* The dict type_map: its keys and the value of each.
type_map_keys ==
  {Lower(Bug), Lower(Story), Lower(Task), Lower(Epic), Lower(Subtask),
   Lower(Improvement)}
type_map(k) == IF k = Lower(Bug) THEN Bugfix ELSE Feature

\* A lookup that forgets .lower().
determine_branch_type_CaseSensitive(issue_type) ==
  IF issue_type \in type_map_keys THEN type_map(issue_type) ELSE Feature

\* type_map.get(issue_type.lower(), 'feature')
determine_branch_type(issue_type) ==
  IF Lower(issue_type) \in type_map_keys
    THEN type_map(Lower(issue_type))
    ELSE Feature

(***************************************************************************)
(* The config provider (jira_config.py).                                   *)
(*                                                                         *)
(* A config file is [exists, default_profile, defaults, sections]:         *)
(* default_profile is the DEFAULT section's pointer (None when not set),   *)
(* defaults holds the DEFAULT section's url/email/token, which every       *)
(* section inherits, and sections maps a section's name to its own keys.   *)
(* A key's value is None (the key is not in the file), "" (key with no     *)
(* value) or a non-empty string. The environment maps JIRA_URL, JIRA_EMAIL *)
(* and JIRA_API_TOKEN to None (unset), "" or a non-empty string. The file  *)
(* is one configparser can read.                                           *)
(***************************************************************************)
CredentialKeys == <<"url", "email", "token">>
FallbackProfile == "ihkreddy"
FallbackUrl == "https://ihkreddy.atlassian.net"
DefaultSection == "DEFAULT"

\* profile_name in self.config
HasProfile(file, profile_name) ==
  profile_name = DefaultSection \/ profile_name \in DOMAIN file.sections

\* profile.get(key): the section's own value, else the DEFAULT section's.
SectionGet(file, profile_name, key) ==
  IF profile_name \in DOMAIN file.sections
     /\ file.sections[profile_name][key] # None
    THEN file.sections[profile_name][key]
    ELSE file.defaults[key]

\* The name get_profile looks up (jira_config.py 41-43).
ProfileName(file, profile_name) ==
  IF profile_name # None THEN profile_name
  ELSE IF file.default_profile # None THEN file.default_profile
  ELSE FallbackProfile

\* The environment fallback (jira_config.py 55-60).
EnvCredentials(environ) ==
  [url   |-> IF environ.JIRA_URL # None THEN environ.JIRA_URL ELSE FallbackUrl,
   email |-> environ.JIRA_EMAIL,
   token |-> environ.JIRA_API_TOKEN]

\* A get_profile that fills each key the section leaves unset from the
\* environment.
get_profile_PerField(file, environ, profile_name) ==
  IF file.exists /\ HasProfile(file, ProfileName(file, profile_name))
    THEN [k \in Range(CredentialKeys) |->
            IF SectionGet(file, ProfileName(file, profile_name), k) # None
              THEN SectionGet(file, ProfileName(file, profile_name), k)
              ELSE EnvCredentials(environ)[k]]
    ELSE EnvCredentials(environ)

\* JiraConfig.get_profile (jira_config.py 36-60).
get_profile(file, environ, profile_name) ==
  IF file.exists /\ HasProfile(file, ProfileName(file, profile_name))
    THEN [k \in Range(CredentialKeys) |->
            SectionGet(file, ProfileName(file, profile_name), k)]
    ELSE EnvCredentials(environ)

\* not credentials.get(key)
Falsy(v) == v = None \/ v = ""

\* JiraConfig.validate_profile (jira_config.py 70-77): the keys it reports
\* missing, in order; it stops at the first.
MissingKeys(credentials) ==
  SelectSeq(CredentialKeys, LAMBDA k : Falsy(credentials[k]))
\* A validation that tests `is None` where the code tests falsity.
validate_profile_IsNone(credentials) ==
  \A k \in Range(CredentialKeys) : credentials[k] # None

validate_profile(credentials) == MissingKeys(credentials) = <<>>

\* get_config (jira_config.py 80-91): the credentials returned, or exit(1)
\* after "Missing <key> in configuration".
get_config(file, environ, profile) ==
  LET credentials == get_profile(file, environ, profile) IN
    IF validate_profile(credentials)
      THEN [outcome |-> "return", credentials |-> credentials,
            printed |-> None, exit_code |-> 0]
      ELSE [outcome |-> "exit", credentials |-> credentials,
            printed |-> Head(MissingKeys(credentials)), exit_code |-> 1]

(***************************************************************************)
(* State.                                                                  *)
(***************************************************************************)
VARIABLES
  \* start-work.py: what the run is given
  args,            \* the parsed command line (start-work.py 219-227)
  config_file,     \* the .jira-config file
  environ,         \* os.environ
  git_installed,   \* whether the git executable can be started
  is_repo,         \* whether the current directory is a git working tree
  \* start-work.py: what outlives a run
  branches,        \* the local branches of the working tree
  head,            \* the branch checked out
  run,             \* the number of the run of main() in progress
  prev_run,        \* what the run before asked of create_branch, and got
  \* start-work.py: one run of main()
  tracker_writes,  \* the POSTs of this run the tracker has applied, in order
  pc,              \* the statement main() is at
  client,          \* the JiraClient
  issue_data,      \* get_issue's result
  branch_type,     \* main's branch_type
  cb_branch_name,  \* create_branch's branch_name
  cb_exists,       \* create_branch's result.stdout.strip()
  branch_name,     \* main's branch_name, <<>> for None
  transitions,     \* transition_issue's transitions, <<>> before the GET
  transition_id,   \* transition_issue's transition_id
  git_fault,       \* a git command of this run failed for a reason of git's
  calls,           \* the commands and requests of this run, in order
  out,             \* what this run printed, in order
  exit_code,       \* the process's exit status, -1 while it runs
  \* the pure functions, applied to one input
  fn_pc, fn_in, fn_out, fn_again,
  \* start-work.py: create_branch of a second invocation, on the same ticket
  \* and in the same working tree
  peer_pc,              \* the statement the second create_branch is at
  peer_cb_branch_name,  \* its branch_name
  peer_cb_exists,       \* its result.stdout.strip()
  peer_branch_name,     \* what it returned to its main, <<>> for None
  \* fetch-ticket.py: one run of main()
  ft_args,         \* the parsed command line (fetch-ticket.py 208-222)
  ft_config,       \* the .jira-config file and os.environ of the run
  ft_pc,           \* the statement main() is at
  ft_issue_data,   \* get_issue's result
  ft_output,       \* main's output, the parts it was built of
  ft_file,         \* the file named by --output: what was written to it
  ft_calls,        \* the requests of the run, in order
  ft_out,          \* what the run printed, in order
  ft_exit_code,    \* the process's exit status, -1 while it runs
  \* create-ticket.py: one run of main()
  ct_args,         \* the parsed command line (create-ticket.py 120-128)
  ct_env,          \* the config, and which of git and gh can be started
  ct_pc,           \* the statement main() is at
  ct_ticket,       \* main's ticket, None before it is created
  ct_branch_name,  \* main's branch_name, <<>> before create_branch returns
  ct_world,        \* what the run has made: ticket, branches, pushes, PRs
  ct_calls,        \* the requests and commands of the run, in order
  ct_out,          \* what the run printed, in order
  ct_exit_code,    \* the process's exit status, -1 while it runs
  \* test-endpoint.py: one run of main()
  te_args,         \* the parsed command line (test-endpoint.py 141-185)
  te_pc,           \* the statement main() is at
  te_response,     \* what requests.request was answered, if it was called
  te_status_code,  \* main's status_code, None for None
  te_out,          \* what the run printed, in order
  te_exit_code     \* the process's exit status, -1 while it runs

vars ==
  <<args, config_file, environ, git_installed, is_repo, branches, head,
    tracker_writes, run, prev_run, pc, client, issue_data, branch_type,
    cb_branch_name, cb_exists, branch_name, transitions, transition_id,
    git_fault, calls,
    out, exit_code, fn_pc, fn_in, fn_out, fn_again, peer_pc,
    peer_cb_branch_name, peer_cb_exists, peer_branch_name, ft_args, ft_config,
    ft_pc, ft_issue_data, ft_output, ft_file, ft_calls, ft_out, ft_exit_code,
    ct_args, ct_env, ct_pc, ct_ticket, ct_branch_name, ct_world, ct_calls,
    ct_out, ct_exit_code, te_args, te_pc, te_response, te_status_code, te_out,
    te_exit_code>>

givenVars == <<args, config_file, environ, git_installed, is_repo>>
gitVars == <<branches, head>>
fnVars == <<fn_pc, fn_in, fn_out, fn_again>>
peerVars ==
  <<peer_pc, peer_cb_branch_name, peer_cb_exists, peer_branch_name>>
ftVars ==
  <<ft_args, ft_config, ft_pc, ft_issue_data, ft_output, ft_file, ft_calls,
    ft_out, ft_exit_code>>
ctVars ==
  <<ct_args, ct_env, ct_pc, ct_ticket, ct_branch_name, ct_world, ct_calls,
    ct_out, ct_exit_code>>
teVars ==
  <<te_args, te_pc, te_response, te_status_code, te_out, te_exit_code>>

(***************************************************************************)
(* The inputs of the orchestrator.                                         *)
(***************************************************************************)
TicketKey == <<"P","R","-","7">>
NoBranch == <<>>
Main == <<"m","a","i","n">>

\* A field of the issue JSON: not in the object, null, or a string.
Absent == [kind |-> "absent", val |-> <<>>]
Null   == [kind |-> "null", val |-> <<>>]
Str(s) == [kind |-> "str", val |-> s]

FixLogin      == <<"F","i","x"," ","L","o","g","i","n","!">>
FixLoginLower == <<"f","i","x"," ","-"," ","l","o","g","i","n">>
AddApi        == <<"A","d","d"," ","a","p","i","_","v","2">>
UnknownType   == <<"U","n","k","n","o","w","n","T","y","p","e">>

\* The issues the tracker may answer with: [summary, issuetype, priority],
\* issuetype being fields.issuetype.name and priority standing for the
\* status and priority objects; each may be absent or null.
Tickets ==
  { [summary |-> Str(FixLogin),      issuetype |-> Str(Bug),   priority |-> Str(<<"P","2">>)],
    [summary |-> Str(FixLoginLower), issuetype |-> Str(Bug),   priority |-> Absent],
    [summary |-> Str(AddApi),        issuetype |-> Str(UnknownType), priority |-> Str(<<"P","2">>)],
    [summary |-> Absent,             issuetype |-> Absent,     priority |-> Absent],
    [summary |-> Null,               issuetype |-> Str(Task),  priority |-> Str(<<"P","2">>)],
    [summary |-> Str(FixLogin),      issuetype |-> Str(Story), priority |-> Null],
    [summary |-> Str(FixLogin),      issuetype |-> Null,       priority |-> Absent] }

NoIssue == [summary |-> Absent, issuetype |-> Absent, priority |-> Absent]

\* What raise_for_status, or the transport, raises.
RequestErrors == {"HTTP 404", "HTTP 500", "ConnectionError"}
\* The same, with the status of a rejected login, for the fetch of the ticket.
GetIssueErrors == RequestErrors \cup {"HTTP 401"}

InProgress      == <<"I","n"," ","P","r","o","g","r","e","s","s">>
InProgressUpper == <<"I","N"," ","P","R","O","G","R","E","S","S">>
Done            == <<"D","o","n","e">>

\* The transition lists the tracker may answer with.
TransitionLists ==
  { <<>>,
    << [name |-> Done, id |-> "31"] >>,
    << [name |-> InProgress, id |-> "21"] >>,
    << [name |-> Done, id |-> "31"], [name |-> InProgressUpper, id |-> "11"],
       [name |-> InProgress, id |-> "21"] >> }

NoFile ==
  [exists |-> FALSE, default_profile |-> None,
   defaults |-> [url |-> None, email |-> None, token |-> None],
   sections |-> [n \in {} |-> [url |-> None, email |-> None, token |-> None]]]
NoEnviron == [JIRA_URL |-> None, JIRA_EMAIL |-> None, JIRA_API_TOKEN |-> None]
GoodEnviron ==
  [JIRA_URL |-> None, JIRA_EMAIL |-> "me@env", JIRA_API_TOKEN |-> "envtoken"]
GoodSection == [url |-> "https://work", email |-> "me@work", token |-> "worktoken"]

\* The configurations a run of the orchestrator starts from.
RunConfigs ==
  { [file |-> NoFile, environ |-> GoodEnviron],
    [file |-> NoFile, environ |-> NoEnviron],
    [file |-> [NoFile EXCEPT !.exists = TRUE,
                             !.sections = [n \in {"work"} |-> GoodSection]],
     environ |-> GoodEnviron],
    [file |-> [NoFile EXCEPT !.exists = TRUE,
                             !.sections = [n \in {"work"} |->
                                            [GoodSection EXCEPT !.token = ""]]],
     environ |-> GoodEnviron] }

\* The command lines: --branch-type is <<>> when not given, --profile None.
ArgSets ==
  [ticket : {TicketKey}, branch_type : {<<>>, Hotfix},
   no_status_update : BOOLEAN, no_comment : BOOLEAN,
   profile : {None, "work"}]

NoClient ==
  [built |-> 0, profile |-> None,
   credentials |-> [url |-> None, email |-> None, token |-> None]]
NoPrev ==
  [ran |-> FALSE, summary |-> Absent, issuetype |-> Absent,
   branch_name |-> NoBranch, branches |-> {Main}]

Printed(tag) == \E i \in DOMAIN out : out[i] = tag
Called(c) == \E i \in DOMAIN calls : calls[i] = c

(***************************************************************************)
(* main() of start-work.py, one action per statement that talks to the     *)
(* outside (a request, a git command) or ends the process. The file's      *)
(* lines 224-225 and 235-236 each hold two statements, the first missing   *)
(* its closing parenthesis; they are read as the two statements they       *)
(* spell: two add_argument calls, and JiraClient(args.profile) followed    *)
(* by JiraClient().                                                        *)
(***************************************************************************)
runVars ==
  <<pc, client, issue_data, branch_type, cb_branch_name, cb_exists,
    branch_name, transitions, transition_id, git_fault, calls, out, exit_code>>

Running == pc \notin {"done", "exited", "crashed"}

\* sys.exit(1), or exit(1)
Exit(printed) ==
  /\ pc' = "exited"
  /\ exit_code' = 1
  /\ out' = out \o printed

\* An exception no handler of main() catches: a traceback, exit status 1.
Crash(exception) ==
  /\ pc' = "crashed"
  /\ exit_code' = 1
  /\ out' = Append(out, exception)

\* print(f"Missing {key} in configuration")  (jira_config.py 75)
MissingMessage(key) ==
  CASE key = "url" -> "Missing url in configuration"
    [] key = "email" -> "Missing email in configuration"
    [] key = "token" -> "Missing token in configuration"

\* JiraClient.__init__ (start-work.py 32-46) given get_config's result.
NewClient(profile, got) ==
  [built |-> client.built + 1, profile |-> profile,
   credentials |-> got.credentials]

\* client = JiraClient(args.profile)  (start-work.py 234-235, 237-239).
\* get_config's exit(1) raises SystemExit, which `except Exception` does not
\* catch: the process ends with status 1.
InitClient ==
  /\ pc = "init"
  /\ LET got == get_config(config_file, environ, args.profile) IN
       IF got.outcome = "exit"
         THEN /\ Exit(<<MissingMessage(got.printed)>>)
              /\ UNCHANGED client
         ELSE /\ client' = NewClient(args.profile, got)
              /\ pc' = "init_again"
              /\ UNCHANGED <<out, exit_code>>
  /\ UNCHANGED <<givenVars, gitVars, tracker_writes, run, prev_run,
                 issue_data, branch_type, cb_branch_name, cb_exists,
                 branch_name, transitions, transition_id, git_fault, calls,
                 fnVars, peerVars, ftVars, ctVars, teVars>>

\* client = JiraClient()  (start-work.py 236-239)
InitClientAgain ==
  /\ pc = "init_again"
  /\ LET got == get_config(config_file, environ, None) IN
       IF got.outcome = "exit"
         THEN /\ Exit(<<MissingMessage(got.printed)>>)
              /\ UNCHANGED client
         ELSE /\ client' = NewClient(None, got)
              /\ pc' = "fetch"
              /\ UNCHANGED <<out, exit_code>>
  /\ UNCHANGED <<givenVars, gitVars, tracker_writes, run, prev_run,
                 issue_data, branch_type, cb_branch_name, cb_exists,
                 branch_name, transitions, transition_id, git_fault, calls,
                 fnVars, peerVars, ftVars, ctVars, teVars>>

\* issue_data = client.get_issue(args.ticket) returns (start-work.py 242-245,
\* 48-53).
FetchOk ==
  /\ pc = "fetch"
  /\ \E ticket \in Tickets : issue_data' = ticket
  /\ calls' = Append(calls, "GET issue")
  /\ out' = Append(out, "Fetched ticket")
  /\ pc' = "display"
  /\ UNCHANGED <<givenVars, gitVars, tracker_writes, run, prev_run, client,
                 branch_type, cb_branch_name, cb_exists, branch_name,
                 transitions, transition_id, git_fault, exit_code, fnVars,
                 peerVars, ftVars, ctVars, teVars>>

\* A handler that prints and forgets sys.exit(1).
FetchFailed_Continue(e) ==
  /\ pc = "fetch"
  /\ calls' = Append(calls, "GET issue")
  /\ out' = out \o <<"Failed to fetch ticket", e>>
  /\ pc' = "display"
  /\ UNCHANGED <<givenVars, gitVars, tracker_writes, run, prev_run, client,
                 issue_data, branch_type, cb_branch_name, cb_exists,
                 branch_name, transitions, transition_id, git_fault,
                 exit_code, fnVars, peerVars, ftVars, ctVars, teVars>>

\* client.get_issue raises: print and sys.exit(1) (start-work.py 246-248).
FetchFailed(e) ==
  /\ pc = "fetch"
  /\ calls' = Append(calls, "GET issue")
  /\ Exit(<<"Failed to fetch ticket", e>>)
  /\ UNCHANGED <<givenVars, gitVars, tracker_writes, run, prev_run, client,
                 issue_data, branch_type, cb_branch_name, cb_exists,
                 branch_name, transitions, transition_id, git_fault, fnVars,
                 peerVars, ftVars, ctVars, teVars>>

FetchFail == \E e \in GetIssueErrors : FetchFailed(e)

\* display_ticket_info(issue_data) (start-work.py 153-182, 251):
\* fields.get('issuetype', {}).get('name', ...) and its likes for status and
\* priority raise AttributeError when the field is null.
DisplayRaises(issue) ==
  issue.issuetype.kind = "null" \/ issue.priority.kind = "null"

Display ==
  /\ pc = "display"
  /\ IF DisplayRaises(issue_data)
       THEN Crash("AttributeError")
       ELSE /\ out' = Append(out, "ticket info")
            /\ pc' = "branch"
            /\ UNCHANGED exit_code
  /\ UNCHANGED <<givenVars, gitVars, tracker_writes, run, prev_run, client,
                 issue_data, branch_type, cb_branch_name, cb_exists,
                 branch_name, transitions, transition_id, git_fault, calls,
                 fnVars, peerVars, ftVars, ctVars, teVars>>

\* fields.get('issuetype', {}).get('name', 'Story')  (start-work.py 255)
IssueType(issue) ==
  IF issue.issuetype.kind = "str" THEN issue.issuetype.val ELSE Story

\* A branch type that is always detected from the issue type.
BranchTypeFor_AutoOnly(a, issue) == determine_branch_type(IssueType(issue))

\* args.branch_type or determine_branch_type(issue_type) (start-work.py 256)
BranchTypeFor(a, issue) ==
  IF a.branch_type # <<>> THEN a.branch_type
  ELSE determine_branch_type(IssueType(issue))

\* fields.get('summary', 'no-summary')  (start-work.py 259)
NoSummary == <<"n","o","-","s","u","m","m","a","r","y">>
SummaryOf(issue) ==
  IF issue.summary.kind = "absent" THEN NoSummary ELSE issue.summary.val

\* f"{branch_type}/{ticket_key.lower()}-{slug}"  (start-work.py 125-126)
BranchName(ticket_key, summary, type) ==
  type \o <<"/">> \o Lower(ticket_key) \o <<"-">> \o slugify(summary)

\* except subprocess.CalledProcessError: print, return None; then main's
\* `if not branch_name`: print, sys.exit(1) (start-work.py 148-150, 262-264).
\* A main() that forgets sys.exit(1) after a failed create_branch.
BranchFailed_Continue ==
  /\ branch_name' = NoBranch
  /\ out' = out \o <<"Git error", "Failed to create branch">>
  /\ pc' = "status"
  /\ UNCHANGED exit_code

BranchFailed ==
  /\ branch_name' = NoBranch
  /\ Exit(<<"Git error", "Failed to create branch">>)

\* Lines 254-260 and create_branch up to `git rev-parse --git-dir`
\* (start-work.py 122-131). slugify(None) raises AttributeError before the
\* try; a git that cannot be started raises FileNotFoundError, which the
\* handler of CalledProcessError does not catch.
BranchStart ==
  /\ pc = "branch"
  /\ branch_type' = BranchTypeFor(args, issue_data)
  /\ IF issue_data.summary.kind = "null"
       THEN /\ Crash("AttributeError")
            /\ UNCHANGED <<cb_branch_name, calls, branch_name>>
       ELSE /\ cb_branch_name' =
                 BranchName(args.ticket, SummaryOf(issue_data), branch_type')
            /\ calls' = Append(calls, "git rev-parse")
            /\ IF ~git_installed
                 THEN Crash("FileNotFoundError") /\ UNCHANGED branch_name
                 ELSE IF ~is_repo
                   THEN BranchFailed
                   ELSE /\ pc' = "git_list"
                        /\ UNCHANGED <<branch_name, out, exit_code>>
  /\ UNCHANGED <<givenVars, gitVars, tracker_writes, run, prev_run, client,
                 issue_data, cb_exists, transitions, transition_id, git_fault,
                 fnVars, peerVars, ftVars, ctVars, teVars>>

\* An existence check that never finds the branch.
GitBranchList_NeverExists ==
  /\ pc = "git_list"
  /\ cb_exists' = FALSE
  /\ calls' = Append(calls, "git branch --list")
  /\ pc' = "git_checkout_b"
  /\ UNCHANGED <<givenVars, gitVars, tracker_writes, run, prev_run, client,
                 issue_data, branch_type, cb_branch_name, branch_name,
                 transitions, transition_id, git_fault, out, exit_code,
                 fnVars, peerVars, ftVars, ctVars, teVars>>

\* result = git branch --list <branch_name>  (start-work.py 133-137): run
\* without check=True, so a failing command only leaves stdout empty.
GitBranchList ==
  /\ pc = "git_list"
  /\ \E ok \in BOOLEAN :
       /\ cb_exists' = (ok /\ cb_branch_name \in branches)
       /\ git_fault' = (git_fault \/ ~ok)
  /\ calls' = Append(calls, "git branch --list")
  /\ pc' = IF cb_exists' THEN "git_checkout" ELSE "git_checkout_b"
  /\ UNCHANGED <<givenVars, gitVars, tracker_writes, run, prev_run, client,
                 issue_data, branch_type, cb_branch_name, branch_name,
                 transitions, transition_id, out, exit_code, fnVars, peerVars,
                 ftVars, ctVars, teVars>>

\* git checkout <branch_name>; return branch_name (start-work.py 138-141)
GitCheckout ==
  /\ pc = "git_checkout"
  /\ calls' = Append(calls, "git checkout")
  /\ \E ok \in BOOLEAN :
       /\ git_fault' = (git_fault \/ ~ok)
       /\ IF ok
            THEN /\ head' = cb_branch_name
                 /\ branch_name' = cb_branch_name
                 /\ out' = Append(out, "already exists")
                 /\ pc' = "status"
                 /\ UNCHANGED exit_code
            ELSE /\ BranchFailed
                 /\ UNCHANGED head
  /\ UNCHANGED <<givenVars, branches, tracker_writes, run, prev_run, client,
                 issue_data, branch_type, cb_branch_name, cb_exists,
                 transitions, transition_id, fnVars, peerVars, ftVars, ctVars,
                 teVars>>

\* git checkout -b <branch_name>; return branch_name (start-work.py 143-146):
\* git refuses to create a branch that exists.
GitCheckoutNew ==
  /\ pc = "git_checkout_b"
  /\ calls' = Append(calls, "git checkout -b")
  /\ \E ok \in BOOLEAN :
       /\ git_fault' = (git_fault \/ ~ok)
       /\ IF ok /\ cb_branch_name \notin branches
            THEN /\ branches' = branches \cup {cb_branch_name}
                 /\ head' = cb_branch_name
                 /\ branch_name' = cb_branch_name
                 /\ out' = Append(out, "Created and checked out branch")
                 /\ pc' = "status"
                 /\ UNCHANGED exit_code
            ELSE /\ BranchFailed
                 /\ UNCHANGED gitVars
  /\ UNCHANGED <<givenVars, tracker_writes, run, prev_run, client, issue_data,
                 branch_type, cb_branch_name, cb_exists, transitions,
                 transition_id, fnVars, peerVars, ftVars, ctVars, teVars>>

\* A search that compares the names as they are spelled.
RECURSIVE FindTransition_CaseSensitive(_, _)
FindTransition_CaseSensitive(list, transition_name) ==
  IF list = <<>> THEN None
  ELSE IF Head(list).name = transition_name
    THEN Head(list).id
    ELSE FindTransition_CaseSensitive(Tail(list), transition_name)

\* transition_issue's search (start-work.py 66-70): the id of the first
\* transition whose name matches, None when there is none.
RECURSIVE FindTransition(_, _)
FindTransition(list, transition_name) ==
  IF list = <<>> THEN None
  ELSE IF Lower(Head(list).name) = Lower(transition_name)
    THEN Head(list).id
    ELSE FindTransition(Tail(list), transition_name)

\* A --no-status-update that skips the comment as well.
StatusSkip_SkipsComment ==
  /\ pc = "status"
  /\ args.no_status_update
  /\ pc' = "summary"
  /\ UNCHANGED <<givenVars, gitVars, tracker_writes, run, prev_run, client,
                 issue_data, branch_type, cb_branch_name, cb_exists,
                 branch_name, transitions, transition_id, git_fault, calls,
                 out, exit_code, fnVars, peerVars, ftVars, ctVars, teVars>>

\* --no-status-update (start-work.py 267)
StatusSkip ==
  /\ pc = "status"
  /\ args.no_status_update
  /\ pc' = "comment"
  /\ UNCHANGED <<givenVars, gitVars, tracker_writes, run, prev_run, client,
                 issue_data, branch_type, cb_branch_name, cb_exists,
                 branch_name, transitions, transition_id, git_fault, calls,
                 out, exit_code, fnVars, peerVars, ftVars, ctVars, teVars>>

\* client.transition_issue(args.ticket, 'In Progress') up to its return
\* False (start-work.py 268-270, 272-273, 55-74): get_transitions answers.
StatusGet ==
  /\ pc = "status"
  /\ ~args.no_status_update
  /\ calls' = Append(calls, "GET transitions")
  /\ \E answer \in TransitionLists :
       /\ transitions' = answer
       /\ transition_id' = FindTransition(answer, InProgress)
       /\ IF transition_id' = None
            THEN /\ out' = out \o <<"Transition not available",
                                    "Could not update status">>
                 /\ pc' = "comment"
            ELSE /\ pc' = "status_post"
                 /\ UNCHANGED out
  /\ UNCHANGED <<givenVars, gitVars, tracker_writes, run, prev_run, client,
                 issue_data, branch_type, cb_branch_name, cb_exists,
                 branch_name, git_fault, exit_code, fnVars, peerVars, ftVars,
                 ctVars, teVars>>

\* A status update whose failure ends the run.
StatusFailed_Fatal(e) ==
  /\ Exit(<<"Status update failed", e>>)
  /\ UNCHANGED gitVars

\* A status update that is tried again after it failed.
StatusFailed_Retry(e) ==
  /\ out' = out \o <<"Status update failed", e>>
  /\ pc' = "status"
  /\ UNCHANGED <<exit_code, gitVars>>

\* `except Exception` of the status update (start-work.py 274-275)
StatusFailed(e) ==
  /\ out' = out \o <<"Status update failed", e>>
  /\ pc' = "comment"
  /\ UNCHANGED <<exit_code, gitVars>>

\* get_transitions raises (start-work.py 57-59)
StatusGetFail ==
  /\ pc = "status"
  /\ ~args.no_status_update
  /\ calls' = Append(calls, "GET transitions")
  /\ \E e \in RequestErrors : StatusFailed(e)
  /\ UNCHANGED <<givenVars, tracker_writes, run, prev_run, client, issue_data,
                 branch_type, cb_branch_name, cb_exists, branch_name,
                 transitions, transition_id, git_fault, fnVars, peerVars,
                 ftVars, ctVars, teVars>>

\* The POST of the transition is applied (start-work.py 76-81, 271)
StatusPost ==
  /\ pc = "status_post"
  /\ calls' = Append(calls, "POST transition")
  /\ tracker_writes' =
       Append(tracker_writes,
              [kind |-> "transition", id |-> transition_id, body |-> <<>>])
  /\ out' = Append(out, "Updated status")
  /\ pc' = "comment"
  /\ UNCHANGED <<givenVars, gitVars, run, prev_run, client, issue_data,
                 branch_type, cb_branch_name, cb_exists, branch_name,
                 transitions, transition_id, git_fault, exit_code, fnVars,
                 peerVars, ftVars, ctVars, teVars>>

\* The POST of the transition raises (start-work.py 79-80)
StatusPostFail ==
  /\ pc = "status_post"
  /\ calls' = Append(calls, "POST transition")
  /\ \E e \in RequestErrors : StatusFailed(e)
  /\ UNCHANGED <<givenVars, tracker_writes, run, prev_run, client, issue_data,
                 branch_type, cb_branch_name, cb_exists, branch_name,
                 transitions, transition_id, git_fault, fnVars, peerVars,
                 ftVars, ctVars, teVars>>

\* --no-comment (start-work.py 278)
CommentSkip ==
  /\ pc = "comment"
  /\ args.no_comment
  /\ pc' = "summary"
  /\ UNCHANGED <<givenVars, gitVars, tracker_writes, run, prev_run, client,
                 issue_data, branch_type, cb_branch_name, cb_exists,
                 branch_name, transitions, transition_id, git_fault, calls,
                 out, exit_code, fnVars, peerVars, ftVars, ctVars, teVars>>

\* f"Started working on this ticket in branch: {branch_name}"
StartedWorking ==
  <<"S","t","a","r","t","e","d"," ","w","o","r","k","i","n","g"," ","o","n",
    " ","t","h","i","s"," ","t","i","c","k","e","t"," ","i","n"," ",
    "b","r","a","n","c","h",":"," ">>
\* A comment that does not name the branch.
CommentText_Unnamed(name) == StartedWorking

CommentText(name) == StartedWorking \o name

\* The content of the document add_comment posts (start-work.py 87-102):
\* its paragraphs, each with the text it holds.
CommentBody(comment) == <<[type |-> "paragraph", text |-> comment]>>

\* client.add_comment(args.ticket, comment) is applied (start-work.py
\* 279-283, 83-107)
CommentPost ==
  /\ pc = "comment"
  /\ ~args.no_comment
  /\ calls' = Append(calls, "POST comment")
  /\ tracker_writes' =
       Append(tracker_writes,
              [kind |-> "comment", id |-> None,
               body |-> CommentBody(CommentText(branch_name))])
  /\ out' = Append(out, "Added comment")
  /\ pc' = "summary"
  /\ UNCHANGED <<givenVars, gitVars, run, prev_run, client, issue_data,
                 branch_type, cb_branch_name, cb_exists, branch_name,
                 transitions, transition_id, git_fault, exit_code, fnVars,
                 peerVars, ftVars, ctVars, teVars>>

\* A comment whose failure ends the run.
CommentFailed_Fatal(e) ==
  /\ Exit(<<"Failed to add comment", e>>)
  /\ UNCHANGED gitVars

\* A comment whose failure undoes the branch step.
CommentFailed_Rollback(e) ==
  /\ out' = out \o <<"Failed to add comment", e>>
  /\ pc' = "summary"
  /\ head' = Main
  /\ branches' = branches \ {branch_name}
  /\ UNCHANGED exit_code

\* `except Exception` of the comment (start-work.py 284-285)
CommentFailed(e) ==
  /\ out' = out \o <<"Failed to add comment", e>>
  /\ pc' = "summary"
  /\ UNCHANGED <<exit_code, gitVars>>

\* client.add_comment raises (start-work.py 105-106)
CommentPostFail ==
  /\ pc = "comment"
  /\ ~args.no_comment
  /\ calls' = Append(calls, "POST comment")
  /\ \E e \in RequestErrors : CommentFailed(e)
  /\ UNCHANGED <<givenVars, tracker_writes, run, prev_run, client, issue_data,
                 branch_type, cb_branch_name, cb_exists, branch_name,
                 transitions, transition_id, git_fault, fnVars, peerVars,
                 ftVars, ctVars, teVars>>

\* The success summary; main() returns and the process exits with status 0
\* (start-work.py 287-296).
Summary ==
  /\ pc = "summary"
  /\ out' = out \o <<"Ready to work on", "Branch">>
  /\ pc' = "done"
  /\ exit_code' = 0
  /\ UNCHANGED <<givenVars, gitVars, tracker_writes, run, prev_run, client,
                 issue_data, branch_type, cb_branch_name, cb_exists,
                 branch_name, transitions, transition_id, git_fault, calls,
                 fnVars, peerVars, ftVars, ctVars, teVars>>

\* What a run leaves for the next to be compared with.
RunRecord ==
  [ran |-> TRUE, summary |-> issue_data.summary,
   issuetype |-> issue_data.issuetype, branch_name |-> branch_name,
   branches |-> branches]

\* The operator runs the script again, with the same command line, in the
\* same working tree.
RunAgain ==
  /\ ~Running
  /\ run < MaxRuns
  /\ run' = run + 1
  /\ prev_run' = RunRecord
  /\ pc' = "init"
  /\ client' = NoClient
  /\ issue_data' = NoIssue
  /\ branch_type' = <<>>
  /\ cb_branch_name' = NoBranch
  /\ cb_exists' = FALSE
  /\ branch_name' = NoBranch
  /\ transitions' = <<>>
  /\ transition_id' = None
  /\ git_fault' = FALSE
  /\ calls' = <<>>
  /\ out' = <<>>
  /\ exit_code' = -1
  /\ tracker_writes' = <<>>
  /\ UNCHANGED <<givenVars, gitVars, fnVars, peerVars, ftVars, ctVars,
                 teVars>>

FnIdle ==
  /\ fn_pc = "idle"
  /\ fn_in = <<>>
  /\ fn_out = <<>>
  /\ fn_again = <<>>

\* No second invocation runs.
PeerIdle ==
  /\ peer_pc = "idle"
  /\ peer_cb_branch_name = NoBranch
  /\ peer_cb_exists = FALSE
  /\ peer_branch_name = NoBranch

\* create-ticket.py does not run.
CtIdle ==
  /\ ct_args = <<>>
  /\ ct_env = <<>>
  /\ ct_pc = "idle"
  /\ ct_ticket = None
  /\ ct_branch_name = NoBranch
  /\ ct_world = <<>>
  /\ ct_calls = <<>>
  /\ ct_out = <<>>
  /\ ct_exit_code = -1

\* test-endpoint.py does not run.
\* make_request's `return None` (test-endpoint.py 137), among the integers it
\* returns otherwise.
ReturnedNone == -1

TeIdle ==
  /\ te_args = <<>>
  /\ te_pc = "idle"
  /\ te_response = <<>>
  /\ te_status_code = ReturnedNone
  /\ te_out = <<>>
  /\ te_exit_code = -1

\* fetch-ticket.py does not run.
FtIdle ==
  /\ ft_args = <<>>
  /\ ft_config = <<>>
  /\ ft_pc = "idle"
  /\ ft_issue_data = NoIssue
  /\ ft_output = <<>>
  /\ ft_file = <<>>
  /\ ft_calls = <<>>
  /\ ft_out = <<>>
  /\ ft_exit_code = -1

\* The state main() of start-work.py starts in.
MainInit ==
  /\ args \in ArgSets
  /\ \E c \in RunConfigs : config_file = c.file /\ environ = c.environ
  /\ git_installed \in BOOLEAN
  /\ is_repo \in BOOLEAN
  /\ branches = {Main}
  /\ head = Main
  /\ tracker_writes = <<>>
  /\ run = 1
  /\ prev_run = NoPrev
  /\ pc = "init"
  /\ client = NoClient
  /\ issue_data = NoIssue
  /\ branch_type = <<>>
  /\ cb_branch_name = NoBranch
  /\ cb_exists = FALSE
  /\ branch_name = NoBranch
  /\ transitions = <<>>
  /\ transition_id = None
  /\ git_fault = FALSE
  /\ calls = <<>>
  /\ out = <<>>
  /\ exit_code = -1

Init ==
  /\ MainInit
  /\ FnIdle
  /\ PeerIdle
  /\ FtIdle
  /\ CtIdle
  /\ TeIdle

Next ==
  \/ InitClient
  \/ InitClientAgain
  \/ FetchOk
  \/ FetchFail
  \/ Display
  \/ BranchStart
  \/ GitBranchList
  \/ GitCheckout
  \/ GitCheckoutNew
  \/ StatusSkip
  \/ StatusGet
  \/ StatusGetFail
  \/ StatusPost
  \/ StatusPostFail
  \/ CommentSkip
  \/ CommentPost
  \/ CommentPostFail
  \/ Summary
  \/ RunAgain

Spec == Init /\ [][Next]_vars

(***************************************************************************)
(* Claims about the orchestrator, under Spec.                              *)
(***************************************************************************)
\* out holds message and, right after it, the error e it was printed with.
PrintedWith(message, e) ==
  \E i \in DOMAIN out :
    i < Len(out) /\ out[i] = message /\ out[i + 1] = e

GitCommands ==
  {"git rev-parse", "git branch --list", "git checkout", "git checkout -b"}
TrackerWrites == {"POST transition", "POST comment"}

\* The steps that follow a raised status update or comment can be taken.
CanFinish == ENABLED (CommentSkip \/ CommentPost \/ CommentPostFail \/ Summary)

\* C1: when the ticket fetch fails, the run exits non-zero before any
\* branch operation: no git command is run, and no transition and no
\* comment is sent.
C1_FetchFailureIsFatal ==
  Printed("Failed to fetch ticket") =>
    /\ pc = "exited"
    /\ exit_code = 1
    /\ calls = <<"GET issue">>
    /\ tracker_writes = <<>>
    /\ branch_name = NoBranch

\* The tracker answered 'not found' and the run has ended.
C1_Witness ==
  /\ PrintedWith("Failed to fetch ticket", "HTTP 404")
  /\ pc = "exited"

\* C2: after a fetch and a branch step that succeeded, a status transition
\* that raises, on the GET of the transitions or on the POST, does not stop
\* the run: it goes on to the success summary and exits with status 0.
C2_StatusFailureContinues ==
  Printed("Status update failed") =>
    /\ pc \in {"comment", "summary", "done"}
    /\ pc # "done" => CanFinish
    /\ pc = "done" => (exit_code = 0 /\ Printed("Ready to work on"))

\* The POST of the transition raised a transport error and the run ended
\* with the summary.
C2_Witness ==
  /\ PrintedWith("Status update failed", "ConnectionError")
  /\ Called("POST transition")
  /\ pc = "done"
  /\ exit_code = 0

\* C3: an add_comment that fails is reported as a warning and does not keep
\* the "Ready to work on" summary from being printed; the run exits with
\* status 0.
C3_CommentFailureContinues ==
  Printed("Failed to add comment") =>
    /\ pc \in {"summary", "done"}
    /\ pc # "done" => CanFinish
    /\ pc = "done" => (exit_code = 0 /\ Printed("Ready to work on"))

\* add_comment got HTTP 500 and the run ended with the summary.
C3_Witness ==
  /\ PrintedWith("Failed to add comment", "HTTP 500")
  /\ pc = "done"
  /\ exit_code = 0
  /\ Printed("Ready to work on")

\* This run fetched the ticket the run before it made a branch for, with
\* the same summary and issue type (the command line is the same).
SameTicketAgain ==
  /\ prev_run.ran
  /\ prev_run.branch_name # NoBranch
  /\ pc \notin {"init", "init_again", "fetch"}
  /\ issue_data.summary = prev_run.summary
  /\ issue_data.issuetype = prev_run.issuetype

\* C4: a second run for the same ticket derives the same branch name, and
\* checks the existing branch out rather than failing: create_branch on a
\* branch that exists returns the same name, creates no branch and leaves
\* that branch checked out (it fails only when a git command fails for a
\* reason of git's own).
C4_RerunChecksOutExisting ==
  SameTicketAgain =>
    /\ cb_branch_name \in {NoBranch, prev_run.branch_name}
    /\ branch_name \in {NoBranch, prev_run.branch_name}
    /\ branches = prev_run.branches
    /\ ~git_fault => (pc # "git_checkout_b" /\ ~Called("git checkout -b"))
    /\ branch_name # NoBranch => (head = branch_name /\ Called("git checkout"))
    /\ Printed("Failed to create branch") => git_fault

\* The second run has checked out the branch the first one created and has
\* ended with the summary.
C4_Witness ==
  /\ SameTicketAgain
  /\ run = 2
  /\ branch_name = prev_run.branch_name
  /\ Called("git checkout")
  /\ head = branch_name
  /\ pc = "done"

AfterBranch ==
  /\ branch_name # NoBranch
  /\ pc \in {"status", "status_post", "comment", "summary"}

C6_BranchNeverRolledBack ==
  [][AfterBranch => (branches' = branches /\ head' = head)]_vars

\* Both advisory steps raised and the branch is still there, checked out.
C6_Witness ==
  /\ Printed("Status update failed")
  /\ Printed("Failed to add comment")
  /\ pc = "done"
  /\ branch_name \in branches
  /\ head = branch_name
  /\ Called("git checkout -b")

(***************************************************************************)
(* The pure functions, each applied to an input drawn from a bounded set.  *)
(* The orchestrator does not run in these specifications.                  *)
(***************************************************************************)
orchVars ==
  <<args, config_file, environ, git_installed, is_repo, branches, head,
    tracker_writes, run, prev_run, pc, client, issue_data, branch_type,
    cb_branch_name, cb_exists, branch_name, transitions, transition_id,
    git_fault, calls,
    out, exit_code>>

OrchIdle ==
  /\ args = [ticket |-> TicketKey, branch_type |-> <<>>,
             no_status_update |-> FALSE, no_comment |-> FALSE,
             profile |-> None]
  /\ config_file = NoFile
  /\ environ = NoEnviron
  /\ git_installed = TRUE
  /\ is_repo = TRUE
  /\ branches = {Main}
  /\ head = Main
  /\ tracker_writes = <<>>
  /\ run = 0
  /\ prev_run = NoPrev
  /\ pc = "idle"
  /\ client = NoClient
  /\ issue_data = NoIssue
  /\ branch_type = <<>>
  /\ cb_branch_name = NoBranch
  /\ cb_exists = FALSE
  /\ branch_name = NoBranch
  /\ transitions = <<>>
  /\ transition_id = None
  /\ git_fault = FALSE
  /\ calls = <<>>
  /\ out = <<>>
  /\ exit_code = -1

\* The sequences over S of length at most n.
SeqsUpTo(S, n) == UNION {[1..k -> S] : k \in 0..n}

\* ---- slugify ----
\* One character of each class slugify tells apart: a lowercase letter, an
\* uppercase letter, a digit, the underscore, a blank, a tab, the hyphen, a
\* punctuation mark and an uppercase letter outside ASCII.
SlugAlphabet == {"a", "B", "7", "_", " ", "\t", "-", "!", NonAsciiUpper}

\* The lengths of the run of letters an input starts with: none, or enough
\* for the slug to reach the truncation.
PadLengths == {0} \cup ((SlugMaxLen - 2) .. SlugMaxLen)

SlugInputs ==
  {Repeat("a", n) \o t : n \in PadLengths, t \in SeqsUpTo(SlugAlphabet, MaxTail)}

SlugInit ==
  /\ OrchIdle
  /\ PeerIdle
  /\ FtIdle
  /\ CtIdle
  /\ TeIdle
  /\ fn_pc = "slugify"
  /\ fn_in \in SlugInputs
  /\ fn_out = <<>>
  /\ fn_again = <<>>

\* slug = slugify(summary)
SlugifyCall ==
  /\ fn_pc = "slugify"
  /\ fn_out' = slugify(fn_in)
  /\ fn_pc' = "slugified"
  /\ UNCHANGED <<fn_in, fn_again, orchVars, peerVars, ftVars, ctVars, teVars>>

\* slugify(slug)
SlugifyAgain ==
  /\ fn_pc = "slugified"
  /\ fn_again' = slugify(fn_out)
  /\ fn_pc' = "slugified twice"
  /\ UNCHANGED <<fn_in, fn_out, orchVars, peerVars, ftVars, ctVars, teVars>>

SlugNext == SlugifyCall \/ SlugifyAgain

SpecSlug == SlugInit /\ [][SlugNext]_vars

(***************************************************************************)
(* Claims about slugify, under SpecSlug.                                   *)
(***************************************************************************)
Slugified == fn_pc \in {"slugified", "slugified twice"}

\* [a-z0-9-]
IsSlugChar(c) == c \in Range(LowerChars) \cup Digits \cup {"-"}

\* C7: for every summary S, slugify(S) is lowercase, holds only characters
\* of [a-z0-9-], neither starts nor ends with a hyphen, and is at most 50
\* characters long.
C7_SlugifyShape ==
  Slugified =>
    /\ Lower(fn_out) = fn_out
    /\ \A i \in DOMAIN fn_out : IsSlugChar(fn_out[i])
    /\ fn_out # <<>> => (Head(fn_out) # "-" /\ fn_out[Len(fn_out)] # "-")
    /\ Len(fn_out) <= 50

\* C8: slugify is idempotent, slugify(slugify(S)) = slugify(S) for every
\* S, the inputs whose slug the truncation cuts included.
C8_SlugifyIdempotent ==
  fn_pc = "slugified twice" => fn_again = fn_out

\* ---- determine_branch_type ----
SubTaskHyphen == <<"S","u","b","-","t","a","s","k">>
Bugs == <<"B","u","g","s">>

IssueTypeWords ==
  {Bug, Story, Task, Epic, Subtask, Improvement, UnknownType, Hotfix,
   Refactor, SubTaskHyphen, Bugs, <<>>}

\* w with the characters at the positions of m in upper case, the others in
\* lower case.
Recase(w, m) ==
  [i \in DOMAIN w |->
     IF i \in m THEN UpperChar(LowerChar(w[i])) ELSE LowerChar(w[i])]

IssueTypeInputs ==
  IssueTypeWords
    \cup {Recase(w, m) : w \in IssueTypeWords, m \in SUBSET (1..MaxCased)}

TypeInit ==
  /\ OrchIdle
  /\ PeerIdle
  /\ FtIdle
  /\ CtIdle
  /\ TeIdle
  /\ fn_pc = "determine"
  /\ fn_in \in IssueTypeInputs
  /\ fn_out = <<>>
  /\ fn_again = <<>>

\* determine_branch_type(issue_type)
DetermineCall ==
  /\ fn_pc = "determine"
  /\ fn_out' = determine_branch_type(fn_in)
  /\ fn_pc' = "determined"
  /\ UNCHANGED <<fn_in, fn_again, orchVars, peerVars, ftVars, ctVars, teVars>>

TypeNext == DetermineCall

SpecType == TypeInit /\ [][TypeNext]_vars

\* ---- get_config ----
KeyValues == {None, "", "v"}
Sections == [url : KeyValues, email : KeyValues, token : KeyValues]
FallbackSections == {[GoodSection EXCEPT !.token = t] : t \in KeyValues}

\* The sections of a file: "work" and "ihkreddy", each there or not.
SectionMaps ==
  UNION { [{"work"} -> Sections],
          [{"ihkreddy"} -> FallbackSections],
          [{} -> Sections],
          {[n \in {"work", "ihkreddy"} |-> IF n = "work" THEN w ELSE f] :
             w \in Sections, f \in FallbackSections} }

ConfigFiles ==
  {NoFile} \cup
  [exists : {TRUE}, default_profile : {None, "work"},
   defaults : [url : {None}, email : {None}, token : {None, "dt"}],
   sections : SectionMaps]

Environs ==
  [JIRA_URL : KeyValues, JIRA_EMAIL : KeyValues, JIRA_API_TOKEN : KeyValues]

ConfigInputs ==
  [file : ConfigFiles, environ : Environs,
   profile : {None, "work", "other", DefaultSection}]

NoResult ==
  [outcome |-> "none",
   credentials |-> [url |-> None, email |-> None, token |-> None],
   printed |-> None, exit_code |-> -1]

ConfigInit ==
  /\ OrchIdle
  /\ PeerIdle
  /\ FtIdle
  /\ CtIdle
  /\ TeIdle
  /\ fn_pc = "get config"
  /\ fn_in \in ConfigInputs
  /\ fn_out = NoResult
  /\ fn_again = <<>>

\* credentials = get_config(profile)
GetConfigCall ==
  /\ fn_pc = "get config"
  /\ fn_out' = get_config(fn_in.file, fn_in.environ, fn_in.profile)
  /\ fn_pc' = "got config"
  /\ UNCHANGED <<fn_in, fn_again, orchVars, peerVars, ftVars, ctVars, teVars>>

ConfigNext == GetConfigCall

SpecConfig == ConfigInit /\ [][ConfigNext]_vars

(***************************************************************************)
(* Claims about determine_branch_type, under SpecType.                     *)
(***************************************************************************)
\* C9: determine_branch_type is a fixed lookup that ignores case: "Bug"
\* gives "bugfix"; "Story", "Task", "Epic", "Subtask" and "Improvement" give
\* "feature"; every other issue type gives "feature"; the result is always
\* one of feature, bugfix, hotfix, refactor.
C9_BranchTypeLookup ==
  fn_pc = "determined" =>
    /\ fn_out \in {Feature, Bugfix, Hotfix, Refactor}
    /\ Lower(fn_in) = <<"b","u","g">> => fn_out = Bugfix
    /\ Lower(fn_in) # <<"b","u","g">> => fn_out = Feature

\* A recognised type in a case the table does not spell has been looked up.
C9_Witness ==
  /\ fn_pc = "determined"
  /\ fn_in = <<"B","U","G">>
  /\ fn_out = Bugfix

(***************************************************************************)
(* Claims about get_config, under SpecConfig.                              *)
(***************************************************************************)
\* C10: get_config either returns credentials whose url, email and token
\* are all non-empty, or ends the process with a non-zero status after
\* printing which field is missing, whether the profile section or the
\* environment supplied the values.
C10_ConfigComplete ==
  fn_pc = "got config" =>
    /\ fn_out.outcome \in {"return", "exit"}
    /\ fn_out.outcome = "return" =>
         \A k \in {"url", "email", "token"} :
           fn_out.credentials[k] \notin {None, ""}
    /\ fn_out.outcome = "exit" =>
         /\ fn_out.exit_code # 0
         /\ fn_out.printed \in {"url", "email", "token"}
         /\ fn_out.credentials[fn_out.printed] \in {None, ""}

\* A profile section with an empty token made get_config end the process.
C10_Witness ==
  /\ fn_pc = "got config"
  /\ fn_in.file.exists
  /\ fn_in.profile = "work"
  /\ "work" \in DOMAIN fn_in.file.sections
  /\ fn_in.file.sections["work"] = [url |-> "v", email |-> "v", token |-> ""]
  /\ fn_in.file.defaults.token = None
  /\ fn_in.environ.JIRA_API_TOKEN = "v"
  /\ fn_out.outcome = "exit"
  /\ fn_out.printed = "token"

\* The section get_config was asked for: the named one, else the one the
\* DEFAULT section points to, else "ihkreddy".
AskedSection ==
  IF fn_in.profile # None THEN fn_in.profile
  ELSE IF fn_in.file.default_profile # None THEN fn_in.file.default_profile
  ELSE "ihkreddy"

\* The file exists and holds the section asked for.
SectionFound ==
  /\ fn_in.file.exists
  /\ AskedSection \in DOMAIN fn_in.file.sections \cup {"DEFAULT"}

\* What the file gives for key k of the section asked for: the section's
\* own value, else the DEFAULT section's, else None.
FromFile(k) ==
  IF AskedSection \in DOMAIN fn_in.file.sections
     /\ fn_in.file.sections[AskedSection][k] # None
    THEN fn_in.file.sections[AskedSection][k]
    ELSE fn_in.file.defaults[k]

\* What the environment gives for key k.
FromEnviron(k) ==
  CASE k = "url" ->
         IF fn_in.environ.JIRA_URL # None THEN fn_in.environ.JIRA_URL
         ELSE "https://ihkreddy.atlassian.net"
    [] k = "email" -> fn_in.environ.JIRA_EMAIL
    [] k = "token" -> fn_in.environ.JIRA_API_TOKEN

\* C11 as stated: the values come from the profile section when it is
\* there, and the environment variables are the fallback for any field the
\* profile leaves unset, field by field.
C11_EnvFallbackPerField ==
  fn_pc = "got config" =>
    \A k \in {"url", "email", "token"} :
      fn_out.credentials[k] =
        IF SectionFound /\ FromFile(k) # None THEN FromFile(k)
        ELSE FromEnviron(k)

\* C11 as amended: when the file exists and holds the section asked for,
\* all three values come from the file (the section's, else the DEFAULT
\* section's) and the environment is not read, so a field the section
\* leaves unset stays unset; only when the file or the section is missing
\* do all three values come from the environment variables.
C11_EnvFallbackWholeProfile ==
  fn_pc = "got config" =>
    \A k \in {"url", "email", "token"} :
      fn_out.credentials[k] =
        IF SectionFound THEN FromFile(k) ELSE FromEnviron(k)

\* The section has no token, the environment has one, and get_config
\* reported the token missing.
C11_Witness ==
  /\ fn_pc = "got config"
  /\ SectionFound
  /\ FromFile("url") = "v"
  /\ FromFile("email") = "v"
  /\ FromFile("token") = None
  /\ fn_in.environ.JIRA_API_TOKEN = "v"
  /\ fn_out.outcome = "exit"
  /\ fn_out.printed = "token"

(***************************************************************************)
(* The claim about transition_issue, under Spec.                           *)
(***************************************************************************)
\* get_transitions answered transition_issue with a list.
Answered ==
  /\ Called("GET transitions")
  /\ transitions # <<>> \/ ~Printed("Status update failed")

\* The positions of the answered list whose name is 'In Progress' in any
\* letter case.
Matches ==
  LET wanted == Lower(InProgress)
  IN {i \in DOMAIN transitions : Lower(transitions[i].name) = wanted}

\* The id of the first match.
FirstMatchId(matches) ==
  transitions[CHOOSE i \in matches : \A j \in matches : i <= j].id

\* The tracker applied a transition POST with this id.
Transitioned(id) ==
  \E i \in DOMAIN tracker_writes :
    tracker_writes[i].kind = "transition" /\ tracker_writes[i].id = id

\* C12: transition_issue gets the transitions, matches 'In Progress'
\* whatever the letter case, and POSTs the id of the first match only when
\* there is one; it returns True (main prints "Updated status") exactly when
\* a match was found and the POST was applied; with no match it warns and
\* returns False, without a POST and without raising.
C12_TransitionIssue ==
  LET matches == Matches
      matched == matches # {}
      first == FirstMatchId(matches)
      posted == Called("POST transition")
  IN /\ posted => Answered /\ matched /\ transition_id = first
     /\ Printed("Updated status") <=>
          (Answered /\ matched /\ Transitioned(first))
     /\ \A i \in DOMAIN tracker_writes :
          tracker_writes[i].kind = "transition" =>
            matched /\ tracker_writes[i].id = first
     /\ Answered /\ ~matched =>
          /\ Printed("Transition not available")
          /\ Printed("Could not update status")
          /\ ~posted
          /\ ~Printed("Status update failed")
          /\ pc # "crashed"
     /\ Answered /\ matched => pc = "status_post" \/ posted

\* The list held 'IN PROGRESS' before 'In Progress', and the transition
\* with the id of the first was applied.
C12_Witness ==
  /\ Len(transitions) = 3
  /\ Cardinality(Matches) = 2
  /\ transitions[2].name = InProgressUpper
  /\ Transitioned(FirstMatchId(Matches))
  /\ FirstMatchId(Matches) = transitions[2].id
  /\ Printed("Updated status")

(***************************************************************************)
(* main() of fetch-ticket.py and its JiraClient, one action per statement  *)
(* that talks to the outside or ends the process.                          *)
(***************************************************************************)
\* What the tracker, or the transport, answers a GET with: a body that
\* decodes, an error status, no answer at all, or a body that is not JSON.
Response(kind, status, body) ==
  [kind |-> kind, status |-> status, body |-> body]
Unauthorized == 401
NotFound == 404
ServerError == 500
FailedResponses(none) ==
  {Response("http", s, none) : s \in {Unauthorized, NotFound, ServerError}}
    \cup {Response("transport", 0, none), Response("undecodable", 200, none)}
IssueResponses ==
  {Response("ok", 200, t) : t \in Tickets} \cup FailedResponses(NoIssue)
TransitionResponses ==
  {Response("ok", 200, l) : l \in TransitionLists} \cup FailedResponses(<<>>)

FtArgSets ==
  [ticket : {TicketKey}, format : {"json", "markdown", "plain"},
   output : {None, "ticket.md"}, show_transitions : BOOLEAN,
   profile : {None, "work"}]

NoOutput ==
  [format |-> None, issue |-> NoIssue, shown |-> FALSE, transitions |-> <<>>]
NoFileWritten == [written |-> FALSE, content |-> NoOutput]

FtRunning == ft_pc \notin {"idle", "done", "exited", "crashed"}

\* sys.exit(1), or exit(1)
FtExit(printed) ==
  /\ ft_pc' = "exited"
  /\ ft_exit_code' = 1
  /\ ft_out' = ft_out \o printed

\* An exception nothing catches: a traceback, exit status 1.
FtCrash(exception) ==
  /\ ft_pc' = "crashed"
  /\ ft_exit_code' = 1
  /\ ft_out' = Append(ft_out, exception)

\* client = JiraClient(args.profile)  (fetch-ticket.py 224-225, 29-31)
FtInitClient ==
  /\ ft_pc = "init"
  /\ LET got == get_config(ft_config.file, ft_config.environ, ft_args.profile)
     IN IF got.outcome = "exit"
          THEN FtExit(<<"Fetching ticket", MissingMessage(got.printed)>>)
          ELSE /\ ft_out' = Append(ft_out, "Fetching ticket")
               /\ ft_pc' = "fetch"
               /\ UNCHANGED ft_exit_code
  /\ UNCHANGED <<ft_args, ft_config, ft_issue_data, ft_output, ft_file,
                 ft_calls, orchVars, fnVars, peerVars, ctVars, teVars>>

\* JiraClient.get_issue (fetch-ticket.py 42-64): what it prints and how it
\* ends. caught tells whether the error response.json() raises on a body
\* that is not JSON is a RequestException, as it is in the later releases
\* of requests, or a plain ValueError, which no handler here catches.
get_issue(response, caught) ==
  CASE response.kind = "ok" ->
         [outcome |-> "return", printed |-> <<>>]
    [] response.kind = "http" /\ response.status = Unauthorized ->
         [outcome |-> "exit", printed |-> <<"Authentication failed">>]
    [] response.kind = "http" /\ response.status = NotFound ->
         [outcome |-> "exit", printed |-> <<"Ticket not found">>]
    [] response.kind = "http" ->
         [outcome |-> "exit", printed |-> <<"HTTP Error", "HTTP 500">>]
    [] response.kind = "transport" ->
         [outcome |-> "exit",
          printed |-> <<"Error connecting to Jira", "ConnectionError">>]
    [] response.kind = "undecodable" /\ caught ->
         [outcome |-> "exit",
          printed |-> <<"Error connecting to Jira", "JSONDecodeError">>]
    [] response.kind = "undecodable" /\ ~caught ->
         [outcome |-> "raise", printed |-> <<"ValueError">>]

\* issue_data = client.get_issue(args.ticket)  (fetch-ticket.py 228)
FtGetIssue ==
  /\ ft_pc = "fetch"
  /\ \E response \in IssueResponses, caught \in BOOLEAN :
       LET got == get_issue(response, caught) IN
         /\ ft_calls' =
              Append(ft_calls, [request |-> "GET issue", response |-> response])
         /\ CASE got.outcome = "return" ->
                   /\ ft_issue_data' = response.body
                   /\ ft_pc' = "format"
                   /\ ft_out' = ft_out \o got.printed
                   /\ UNCHANGED ft_exit_code
              [] got.outcome = "exit" ->
                   FtExit(got.printed) /\ UNCHANGED ft_issue_data
              [] got.outcome = "raise" ->
                   FtCrash(got.printed[1]) /\ UNCHANGED ft_issue_data
  /\ UNCHANGED <<ft_args, ft_config, ft_output, ft_file, orchVars, fnVars,
                 peerVars, ctVars, teVars>>

\* format_markdown and format_plain (fetch-ticket.py 102-111, 190-197) raise
\* AttributeError on a null issuetype, and format_markdown on a null
\* priority as well; format_json (97-99) takes any issue.
FormatRaises(format, issue) ==
  \/ format = "markdown" /\ DisplayRaises(issue)
  \/ format = "plain" /\ issue.issuetype.kind = "null"

\* output = format_...(issue_data)  (fetch-ticket.py 231-236)
FtFormat ==
  /\ ft_pc = "format"
  /\ IF FormatRaises(ft_args.format, ft_issue_data)
       THEN FtCrash("AttributeError") /\ UNCHANGED ft_output
       ELSE /\ ft_output' = [NoOutput EXCEPT !.format = ft_args.format,
                                            !.issue = ft_issue_data]
            /\ ft_pc' = IF ft_args.show_transitions THEN "transitions"
                        ELSE "write"
            /\ UNCHANGED <<ft_out, ft_exit_code>>
  /\ UNCHANGED <<ft_args, ft_config, ft_issue_data, ft_file, ft_calls,
                 orchVars, fnVars, peerVars, ctVars, teVars>>

\* JiraClient.get_transitions (fetch-ticket.py 66-75): the bare except
\* turns every failure into [].
get_transitions(response) ==
  IF response.kind = "ok"
    THEN [outcome |-> "return", value |-> response.body]
    ELSE [outcome |-> "return", value |-> <<>>]

\* transitions = client.get_transitions(args.ticket) and the lines added to
\* output (fetch-ticket.py 239-243)
FtGetTransitions ==
  /\ ft_pc = "transitions"
  /\ \E response \in TransitionResponses :
       LET got == get_transitions(response) IN
         /\ ft_calls' = Append(ft_calls, [request |-> "GET transitions",
                                          response |-> response])
         /\ IF got.outcome = "return"
              THEN /\ ft_output' = [ft_output EXCEPT !.shown = TRUE,
                                                    !.transitions = got.value]
                   /\ ft_pc' = "write"
                   /\ UNCHANGED <<ft_out, ft_exit_code>>
              ELSE FtCrash("HTTPError") /\ UNCHANGED ft_output
  /\ UNCHANGED <<ft_args, ft_config, ft_issue_data, ft_file, orchVars, fnVars,
                 peerVars, ctVars, teVars>>

\* The output goes to the file --output names, which may not open, or to
\* stdout (fetch-ticket.py 246-253).
FtWrite ==
  /\ ft_pc = "write"
  /\ IF ft_args.output # None
       THEN \E opened \in BOOLEAN :
              IF opened
                THEN /\ ft_file' = [written |-> TRUE, content |-> ft_output]
                     /\ ft_out' =
                          ft_out \o <<"Saved to", "fetched successfully">>
                     /\ ft_pc' = "done"
                     /\ ft_exit_code' = 0
                ELSE FtCrash("OSError") /\ UNCHANGED ft_file
       ELSE /\ ft_out' = ft_out \o <<"output", "fetched successfully">>
            /\ ft_pc' = "done"
            /\ ft_exit_code' = 0
            /\ UNCHANGED ft_file
  /\ UNCHANGED <<ft_args, ft_config, ft_issue_data, ft_output, ft_calls,
                 orchVars, fnVars, peerVars, ctVars, teVars>>

FtInit ==
  /\ ft_args \in FtArgSets
  /\ ft_config \in RunConfigs
  /\ ft_pc = "init"
  /\ ft_issue_data = NoIssue
  /\ ft_output = NoOutput
  /\ ft_file = NoFileWritten
  /\ ft_calls = <<>>
  /\ ft_out = <<>>
  /\ ft_exit_code = -1

FtNext ==
  \/ FtInitClient
  \/ FtGetIssue
  \/ FtFormat
  \/ FtGetTransitions
  \/ FtWrite

\* One of the two scripts is run: start-work.py, or fetch-ticket.py.
ScriptsInit ==
  \/ Init
  \/ OrchIdle /\ FnIdle /\ PeerIdle /\ CtIdle /\ TeIdle /\ FtInit

ScriptsNext == Next \/ FtNext

SpecScripts == ScriptsInit /\ [][ScriptsNext]_vars

(***************************************************************************)
(* Claims about the clients of the two scripts, under SpecScripts.         *)
(***************************************************************************)
FtPrinted(tag) == \E i \in DOMAIN ft_out : ft_out[i] = tag

\* What fetch-ticket.py's get_transitions was answered, if it was called.
FtTransitionsAnswers ==
  {ft_calls[i].response : i \in {j \in DOMAIN ft_calls :
                                   ft_calls[j].request = "GET transitions"}}

\* C13, fetch-ticket.py's part: whatever the GET is answered, main goes on
\* with the list of the answer, or with the empty list when the GET failed.
C13_FetchTicketPart ==
  \A response \in FtTransitionsAnswers :
    /\ ~FtPrinted("HTTPError")
    /\ ft_output.shown
    /\ ft_output.transitions =
         IF response.kind = "ok" THEN response.body ELSE <<>>

\* C13, start-work.py's part: a GET of the transitions that fails is an
\* empty list to transition_issue, which then warns that the transition is
\* not available; nothing is raised into main's handler before a POST.
C13_StartWorkPart ==
  Called("GET transitions") /\ ~Called("POST transition") /\ pc # "status_post"
    => /\ ~Printed("Status update failed")
       /\ Printed("Transition not available")

\* C13: get_transitions returns the empty list on any failure and never
\* raises to its caller, in every script that defines it.
C13_GetTransitionsNeverRaises == C13_FetchTicketPart /\ C13_StartWorkPart

\* What fetch-ticket.py's get_issue was answered, if it was called.
FtIssueAnswers ==
  {ft_calls[i].response : i \in {j \in DOMAIN ft_calls :
                                   ft_calls[j].request = "GET issue"}}

FtPrintedWith(message, e) ==
  \E i \in DOMAIN ft_out :
    i < Len(ft_out) /\ ft_out[i] = message /\ ft_out[i + 1] = e

\* C14, fetch-ticket.py's part: 401, 404 and the other statuses are each
\* reported in their own words and end the process; a body that decodes is
\* returned as it is; after a failed get_issue nothing is formatted,
\* printed as output or written.
C14_FetchTicketPart ==
  \A response \in FtIssueAnswers :
    /\ response.kind = "ok" => ft_issue_data = response.body
    /\ response.kind = "http" /\ response.status = 401 =>
         FtPrinted("Authentication failed")
    /\ response.kind = "http" /\ response.status = 404 =>
         FtPrinted("Ticket not found")
    /\ response.kind = "http" /\ response.status \notin {401, 404} =>
         FtPrintedWith("HTTP Error", "HTTP 500")
    /\ response.kind # "ok" =>
         /\ ft_pc \in {"exited", "crashed"}
         /\ ft_exit_code = 1
         /\ ft_issue_data = NoIssue
         /\ ft_output = NoOutput
         /\ ft_file = NoFileWritten
         /\ ~FtPrinted("output")
         /\ ~FtPrinted("fetched successfully")
         /\ Len(ft_calls) = 1

\* C14, start-work.py's part: the same reports, and the same end of the
\* process, when its get_issue meets the status.
C14_StartWorkPart ==
  /\ PrintedWith("Failed to fetch ticket", "HTTP 401") =>
       Printed("Authentication failed")
  /\ PrintedWith("Failed to fetch ticket", "HTTP 404") =>
       Printed("Ticket not found")
  /\ Printed("Failed to fetch ticket") => pc = "exited" /\ exit_code = 1
  /\ Printed("Fetched ticket") => issue_data \in Tickets

\* C14: get_issue reports a 401 as a failed authentication, a 404 as a
\* ticket not found and any other HTTP error as it is, and ends the
\* process; on success it returns the decoded body; fetch-ticket.py formats
\* and writes nothing after a failed get_issue.
C14_GetIssueReportsAndAborts == C14_FetchTicketPart /\ C14_StartWorkPart

(***************************************************************************)
(* Claims about the switches, the branch type, the order of the steps,     *)
(* Display and create_branch, under Spec.                                  *)
(***************************************************************************)
\* C15: with --no-status-update the run makes no GET of the transitions and
\* no transition POST; with --no-comment it makes no comment POST; a switch
\* leaves the other step alone, and the summary is reached either way.
C15_SkipSwitches ==
  /\ args.no_status_update =>
       /\ ~Called("GET transitions")
       /\ ~Called("POST transition")
       /\ \A i \in DOMAIN tracker_writes : tracker_writes[i].kind # "transition"
  /\ args.no_comment =>
       /\ ~Called("POST comment")
       /\ \A i \in DOMAIN tracker_writes : tracker_writes[i].kind # "comment"
  /\ pc \in {"summary", "done"} =>
       /\ ~args.no_status_update => Called("GET transitions")
       /\ ~args.no_comment => Called("POST comment")
  /\ pc = "status" => ENABLED (StatusSkip \/ StatusGet \/ StatusGetFail)
  /\ pc = "comment" => ENABLED (CommentSkip \/ CommentPost \/ CommentPostFail)
  /\ pc = "summary" => ENABLED Summary
  /\ pc = "done" => Printed("Ready to work on") /\ exit_code = 0

\* A run with --no-status-update alone posted its comment and finished.
C15_Witness ==
  /\ args.no_status_update
  /\ ~args.no_comment
  /\ pc = "done"
  /\ Printed("Added comment")
  /\ Len(tracker_writes) = 1
  /\ tracker_writes[1].kind = "comment"

\* C16: the branch type is the one --branch-type names whenever it is
\* given; otherwise it is the one determine_branch_type gives for the
\* ticket's issue type, 'Story' standing for a ticket without one; the
\* branch is named after it.
C16_BranchTypeChoice ==
  branch_type # <<>> =>
    /\ args.branch_type # <<>> => branch_type = args.branch_type
    /\ args.branch_type = <<>> /\ issue_data.issuetype.kind = "str" =>
         branch_type = determine_branch_type(issue_data.issuetype.val)
    /\ args.branch_type = <<>> /\ issue_data.issuetype = Str(Bug) =>
         branch_type = Bugfix
    /\ args.branch_type = <<>> /\ issue_data.issuetype.kind = "absent" =>
         /\ branch_type = determine_branch_type(Story)
         /\ branch_type = Feature
    /\ cb_branch_name # NoBranch =>
         Take(cb_branch_name, Len(branch_type) + 1) = branch_type \o <<"/">>

\* A Bug ticket, started with --branch-type hotfix, got a hotfix branch.
C16_Witness ==
  /\ args.branch_type = Hotfix
  /\ issue_data.issuetype = Str(Bug)
  /\ branch_type = Hotfix
  /\ branch_name # NoBranch
  /\ Take(branch_name, 7) = Hotfix \o <<"/">>
  /\ branch_name \in branches

\* The step of main() a request or a git command belongs to, counted from
\* Init = 1 to Summary = 7.
StepOfCall(c) ==
  CASE c = "GET issue" -> 2
    [] c \in GitCommands -> 4
    [] c \in {"GET transitions", "POST transition"} -> 5
    [] c = "POST comment" -> 6

\* The step a printed message belongs to, 0 for the text of an error, which
\* follows the message of its step.
StepOfPrint(t) ==
  CASE t \in {"Missing url in configuration", "Missing email in configuration",
              "Missing token in configuration"} -> 1
    [] t \in {"Fetched ticket", "Failed to fetch ticket"} -> 2
    [] t = "ticket info" -> 3
    [] t \in {"already exists", "Created and checked out branch", "Git error",
              "Failed to create branch"} -> 4
    [] t \in {"Transition not available", "Could not update status",
              "Updated status", "Status update failed"} -> 5
    [] t \in {"Added comment", "Failed to add comment"} -> 6
    [] t \in {"Ready to work on", "Branch"} -> 7
    [] OTHER -> 0

TimesCalled(c) == Cardinality({i \in DOMAIN calls : calls[i] = c})
TimesPrinted(t) == Cardinality({i \in DOMAIN out : out[i] = t})

\* C17: the steps of a run are taken in the order Init, Fetch, Display,
\* Branch, Status-Update, Comment, Summary: what the run has called and
\* printed never goes back to an earlier step, no request or command is
\* made twice, and a step is only taken after the steps before it, of
\* which only the status update and the comment may have been skipped.
C17_StepsInOrder ==
  /\ \A i \in 1..(Len(calls) - 1) :
       StepOfCall(calls[i]) <= StepOfCall(calls[i + 1])
  /\ LET messages == SelectSeq(out, LAMBDA t : StepOfPrint(t) # 0)
     IN \A i \in 1..(Len(messages) - 1) :
          StepOfPrint(messages[i]) <= StepOfPrint(messages[i + 1])
  /\ \A c \in GitCommands \cup TrackerWrites
                \cup {"GET issue", "GET transitions"} :
       TimesCalled(c) <= 1
  /\ TimesCalled("git checkout") + TimesCalled("git checkout -b") <= 1
  /\ \A t \in {"Fetched ticket", "ticket info", "Updated status",
               "Added comment", "Ready to work on"} : TimesPrinted(t) <= 1
  /\ Called("GET issue") => client.built > 0
  /\ Printed("ticket info") => Printed("Fetched ticket")
  /\ Called("git rev-parse") => Printed("ticket info")
  /\ Called("GET transitions") \/ Called("POST comment")
       \/ Printed("Ready to work on") =>
       /\ branch_name # NoBranch
       /\ TimesCalled("git checkout") + TimesCalled("git checkout -b") = 1
  /\ Called("POST comment") \/ Printed("Ready to work on") =>
       args.no_status_update \/ Called("GET transitions")
  /\ Printed("Ready to work on") =>
       args.no_comment \/ Called("POST comment")

\* A run that took all seven steps.
C17_Witness ==
  /\ pc = "done"
  /\ calls = <<"GET issue", "git rev-parse", "git branch --list",
               "git checkout -b", "GET transitions", "POST transition",
               "POST comment">>
  /\ Printed("ticket info")
  /\ Printed("Ready to work on")

\* The run ended without the summary.
Aborted == pc \in {"exited", "crashed"}

\* C18: Display only prints and cannot fail the run, whatever fields of the
\* ticket are absent or null: every fetched ticket gets displayed, and a
\* run that ends without the summary was ended by Init, by Fetch or by
\* Branch.
C18_DisplayCannotFail ==
  /\ Printed("Fetched ticket") /\ pc # "display" => Printed("ticket info")
  /\ Aborted =>
       \/ \E k \in {"url", "email", "token"} : Printed(MissingMessage(k))
       \/ Printed("Failed to fetch ticket")
       \/ Printed("ticket info")
  /\ pc = "branch" => calls = <<"GET issue">> /\ tracker_writes = <<>>
                        /\ branches = prev_run.branches

\* create_branch returned None and main reported it and ended the run.
BranchFailureReported ==
  /\ branch_name = NoBranch
  /\ Printed("Git error")
  /\ Printed("Failed to create branch")
  /\ pc = "exited"
  /\ exit_code = 1

\* C19: create_branch fails outside a working tree, and a failure of any
\* of its git commands (the repository check, the existence check, the
\* checkout of the existing branch, the creation of the new one) makes it
\* return no branch name instead of raising; main reports it and ends the
\* run.
C19_GitFailureSurfaced ==
  /\ Called("git rev-parse") /\ ~is_repo => BranchFailureReported
  /\ Called("git rev-parse") /\ ~git_installed => BranchFailureReported
  /\ git_fault => BranchFailureReported
  /\ pc = "crashed" => ~Called("git rev-parse")

(***************************************************************************)
(* Two invocations of start-work.py on the same ticket, in the same        *)
(* working tree. The second is followed through create_branch only, one    *)
(* action per git command; its git commands fail only for what the         *)
(* working tree holds. Both are answered the same ticket.                  *)
(***************************************************************************)
\* The second invocation enters create_branch, up to `git rev-parse
\* --git-dir` (start-work.py 254-260, 122-131).
PeerBranchStart ==
  /\ peer_pc = "branch"
  /\ Printed("Fetched ticket")
  /\ ~DisplayRaises(issue_data)
  /\ IF issue_data.summary.kind = "null"
       THEN /\ peer_pc' = "crashed"
            /\ UNCHANGED peer_cb_branch_name
       ELSE /\ peer_cb_branch_name' =
                 BranchName(args.ticket, SummaryOf(issue_data),
                            BranchTypeFor(args, issue_data))
            /\ peer_pc' = IF ~git_installed THEN "crashed"
                          ELSE IF ~is_repo THEN "exited"
                          ELSE "git_list"
  /\ UNCHANGED <<peer_cb_exists, peer_branch_name, orchVars, fnVars, ftVars,
                 ctVars, teVars>>

\* Its git branch --list <branch_name>  (start-work.py 133-137)
PeerGitBranchList ==
  /\ peer_pc = "git_list"
  /\ peer_cb_exists' = (peer_cb_branch_name \in branches)
  /\ peer_pc' = IF peer_cb_exists' THEN "git_checkout" ELSE "git_checkout_b"
  /\ UNCHANGED <<peer_cb_branch_name, peer_branch_name, orchVars, fnVars,
                 ftVars, ctVars, teVars>>

\* Its git checkout <branch_name>; return branch_name (start-work.py 138-141)
PeerGitCheckout ==
  /\ peer_pc = "git_checkout"
  /\ head' = peer_cb_branch_name
  /\ peer_branch_name' = peer_cb_branch_name
  /\ peer_pc' = "returned"
  /\ UNCHANGED <<peer_cb_branch_name, peer_cb_exists, givenVars, branches,
                 tracker_writes, run, prev_run, pc, client, issue_data,
                 branch_type, cb_branch_name, cb_exists, branch_name,
                 transitions, transition_id, git_fault, calls, out, exit_code,
                 fnVars, ftVars, ctVars, teVars>>

\* Its git checkout -b <branch_name> (start-work.py 143-150, 262-264): git
\* refuses to create a branch that exists, create_branch returns None and
\* main exits.
PeerGitCheckoutNew ==
  /\ peer_pc = "git_checkout_b"
  /\ IF peer_cb_branch_name \notin branches
       THEN /\ branches' = branches \cup {peer_cb_branch_name}
            /\ head' = peer_cb_branch_name
            /\ peer_branch_name' = peer_cb_branch_name
            /\ peer_pc' = "returned"
       ELSE /\ peer_pc' = "exited"
            /\ UNCHANGED <<gitVars, peer_branch_name>>
  /\ UNCHANGED <<peer_cb_branch_name, peer_cb_exists, givenVars,
                 tracker_writes, run, prev_run, pc, client, issue_data,
                 branch_type, cb_branch_name, cb_exists, branch_name,
                 transitions, transition_id, git_fault, calls, out, exit_code,
                 fnVars, ftVars, ctVars, teVars>>

PeerInit ==
  /\ peer_pc = "branch"
  /\ peer_cb_branch_name = NoBranch
  /\ peer_cb_exists = FALSE
  /\ peer_branch_name = NoBranch

RaceInit ==
  /\ MainInit
  /\ FnIdle
  /\ FtIdle
  /\ CtIdle
  /\ TeIdle
  /\ PeerInit

\* A step of either invocation.
RaceNext ==
  \/ InitClient
  \/ InitClientAgain
  \/ FetchOk
  \/ FetchFail
  \/ Display
  \/ BranchStart
  \/ GitBranchList
  \/ GitCheckout
  \/ GitCheckoutNew
  \/ StatusSkip
  \/ StatusGet
  \/ StatusGetFail
  \/ StatusPost
  \/ StatusPostFail
  \/ CommentSkip
  \/ CommentPost
  \/ CommentPostFail
  \/ Summary
  \/ PeerBranchStart
  \/ PeerGitBranchList
  \/ PeerGitCheckout
  \/ PeerGitCheckoutNew

SpecRace == RaceInit /\ [][RaceNext]_vars

(***************************************************************************)
(* The claim about two invocations, under SpecRace.                        *)
(***************************************************************************)
\* Both invocations are through their checkout, and no git command failed
\* for a reason of git's.
BothThroughBranchStep ==
  /\ Called("git checkout") \/ Called("git checkout -b")
  /\ peer_pc \in {"returned", "exited"}
  /\ git_installed
  /\ is_repo
  /\ ~git_fault

\* C20: whatever the interleaving of the existence checks and the creations
\* of two invocations on the same ticket, the second sees that the branch
\* exists and checks it out: both end with the same branch name and neither
\* is ended by the Branch step.
C20_RaceConverges ==
  BothThroughBranchStep =>
    /\ branch_name # NoBranch
    /\ peer_branch_name = branch_name
    /\ peer_pc = "returned"
    /\ ~Printed("Failed to create branch")
    /\ cb_exists \/ peer_cb_exists

(***************************************************************************)
(* Claims about what a run writes to the tracker and about the client,     *)
(* under Spec.                                                             *)
(***************************************************************************)
\* C21: the only writes a run sends to the tracker are at most one
\* transition POST and at most one comment POST, never a second try and
\* never an edit of the ticket; the comment is one paragraph, naming the
\* branch create_branch returned.
C21_ReadMostly ==
  /\ TimesCalled("POST transition") <= 1
  /\ TimesCalled("POST comment") <= 1
  /\ \A i \in DOMAIN calls :
       calls[i] \in GitCommands \cup TrackerWrites
                      \cup {"GET issue", "GET transitions"}
  /\ Len(tracker_writes) <= 2
  /\ \A i \in DOMAIN tracker_writes :
       /\ tracker_writes[i].kind \in {"transition", "comment"}
       /\ \A j \in DOMAIN tracker_writes :
            tracker_writes[j].kind = tracker_writes[i].kind => i = j
       /\ tracker_writes[i].kind = "comment" =>
            /\ branch_name # NoBranch
            /\ branch_name = cb_branch_name
            /\ branch_name \in branches
            /\ tracker_writes[i].body =
                 <<[type |-> "paragraph",
                    text |-> StartedWorking \o branch_name]>>

\* A run applied its transition and then its comment, which names the
\* branch.
C21_Witness ==
  /\ pc = "done"
  /\ Len(tracker_writes) = 2
  /\ tracker_writes[1].kind = "transition"
  /\ tracker_writes[2].kind = "comment"
  /\ Len(tracker_writes[2].body) = 1
  /\ tracker_writes[2].body[1].text = StartedWorking \o branch_name
  /\ branch_name # NoBranch

\* C22: a run constructs the tracker client exactly once, with the
\* --profile it was given, and a construction that fails ends the process
\* with a non-zero status before any fetch.
C22_ClientBuiltOnce ==
  /\ client.built <= 1
  /\ client.built >= 1 => client.profile = args.profile
  /\ Called("GET issue") => client.built = 1
  /\ (\E k \in {"url", "email", "token"} : Printed(MissingMessage(k))) =>
       pc = "exited" /\ exit_code = 1 /\ calls = <<>>

(***************************************************************************)
(* create-ticket.py: create a ticket, then a branch, push it and open a    *)
(* pull request.                                                           *)
(***************************************************************************)
\* re.sub(r'[^a-z0-9\s-]', '', branch_name) (create-ticket.py 74): drop every
\* character that is neither an ASCII lowercase letter, nor a digit, nor
\* whitespace, nor a hyphen.
CtKeptChar(c) == c \in Range(LowerChars) \cup Digits \/ IsSpaceChar(c) \/ c = "-"
CtRemoveSpecial(s) == SelectSeq(s, CtKeptChar)

\* re.sub(r'\s+', '-', branch_name) (create-ticket.py 75): each maximal run of
\* whitespace becomes one hyphen; hyphens stay as they are.
RECURSIVE CollapseSpaces(_)
CollapseSpaces(s) ==
  IF s = <<>> THEN <<>>
  ELSE IF IsSpaceChar(Head(s))
    THEN IF Len(s) >= 2 /\ IsSpaceChar(s[2])
           THEN CollapseSpaces(Tail(s))
           ELSE <<"-">> \o CollapseSpaces(Tail(s))
    ELSE <<Head(s)>> \o CollapseSpaces(Tail(s))

\* branch_name[:50] (create-ticket.py 76)
CtMaxLen == 50

\* create_branch's full_branch_name (create-ticket.py 73-78).
full_branch_name(ticket_key, summary) ==
  Feature \o <<"/">> \o Lower(ticket_key) \o <<"-">>
    \o Take(CollapseSpaces(CtRemoveSpecial(Lower(summary))), CtMaxLen)

\* The command lines of one invocation: --summary, --no-branch, --no-pr.
CtArgSets ==
  [summary : {FixLogin, AddApi}, no_branch : BOOLEAN, no_pr : BOOLEAN]

\* What the invocation runs in: the configuration, and whether git and gh can
\* be started.
CtEnvs ==
  {[file |-> c.file, environ |-> c.environ, git_installed |-> g, gh_installed |-> h] :
     c \in RunConfigs, g \in BOOLEAN, h \in BOOLEAN}

\* What exists outside the process: tickets in the tracker, local branches,
\* branches on the remote, pull requests.
EmptyWorld == [tickets |-> {}, branches |-> {}, pushed |-> {}, prs |-> {}]

\* Status codes the tracker answers a POST of an issue with.
Created == 201
BadRequest == 400
CreateStatuses == {Created, BadRequest, Unauthorized, ServerError}

CtRunning == ct_pc \notin {"idle", "done", "exited", "crashed"}

\* exit(1)
CtExit(printed) ==
  /\ ct_pc' = "exited"
  /\ ct_exit_code' = 1
  /\ ct_out' = ct_out \o printed

\* An exception nothing catches: traceback, exit status 1.
CtCrash(exception) ==
  /\ ct_pc' = "crashed"
  /\ ct_exit_code' = 1
  /\ ct_out' = ct_out \o <<exception>>

\* main returns: exit status 0.
CtReturn(printed) ==
  /\ ct_pc' = "done"
  /\ ct_exit_code' = 0
  /\ ct_out' = ct_out \o printed

\* config = get_config() (create-ticket.py 131)
CtGetConfig ==
  /\ ct_pc = "config"
  /\ LET got == get_config(ct_env.file, ct_env.environ, None) IN
       IF got.outcome = "exit"
         THEN CtExit(<<MissingMessage(got.printed)>>)
         ELSE /\ ct_pc' = "create_ticket"
              /\ UNCHANGED <<ct_out, ct_exit_code>>
  /\ UNCHANGED <<ct_args, ct_env, ct_ticket, ct_branch_name, ct_world, ct_calls,
                 orchVars, fnVars, peerVars, ftVars, teVars>>

\* create_jira_ticket (create-ticket.py 17-67) and main's use of its result
\* (133-149): 201 gives the ticket; any other status prints and returns None,
\* and main exits 1; --no-branch returns after the ticket.
CtCreateTicket ==
  /\ ct_pc = "create_ticket"
  /\ ct_calls' = Append(ct_calls, "POST issue")
  /\ \E status_code \in CreateStatuses :
       IF status_code = Created
         THEN /\ ct_ticket' = TicketKey
              /\ ct_world' = [ct_world EXCEPT !.tickets = @ \cup {TicketKey}]
              /\ IF ct_args.no_branch
                   THEN CtReturn(<<"Creating Jira ticket", "Created ticket">>)
                   ELSE /\ ct_pc' = "branch"
                        /\ ct_out' = ct_out \o <<"Creating Jira ticket", "Created ticket">>
                        /\ UNCHANGED ct_exit_code
         ELSE /\ CtExit(<<"Creating Jira ticket", "Failed to create ticket">>)
              /\ UNCHANGED <<ct_ticket, ct_world>>
  /\ UNCHANGED <<ct_args, ct_env, ct_branch_name,
                 orchVars, fnVars, peerVars, ftVars, teVars>>

\* requests.post raises (create-ticket.py 55): nothing catches it.
CtCreateTicketRaises ==
  /\ ct_pc = "create_ticket"
  /\ ct_calls' = Append(ct_calls, "POST issue")
  /\ \E e \in RequestErrors : CtCrash(e)
  /\ UNCHANGED <<ct_args, ct_env, ct_ticket, ct_branch_name, ct_world,
                 orchVars, fnVars, peerVars, ftVars, teVars>>

\* create_branch (create-ticket.py 70-83) in main's try (151-157):
\* git checkout -b <name> with check=True.
CtCreateBranch ==
  /\ ct_pc = "branch"
  /\ ct_calls' = Append(ct_calls, "git checkout -b")
  /\ LET name == full_branch_name(ct_ticket, ct_args.summary) IN
       IF ~ct_env.git_installed
         THEN /\ CtCrash("FileNotFoundError")
              /\ UNCHANGED <<ct_branch_name, ct_world>>
         ELSE \E returncode \in {0, 128} :
                IF returncode = 0
                  THEN /\ ct_branch_name' = name
                       /\ ct_world' = [ct_world EXCEPT !.branches = @ \cup {name}]
                       /\ ct_pc' = "push"
                       /\ ct_out' = ct_out \o <<"Creating git branch", "Created branch">>
                       /\ UNCHANGED ct_exit_code
                  ELSE /\ CtExit(<<"Creating git branch", "Failed to create branch">>)
                       /\ UNCHANGED <<ct_branch_name, ct_world>>
  /\ UNCHANGED <<ct_args, ct_env, ct_ticket,
                 orchVars, fnVars, peerVars, ftVars, teVars>>

\* push_branch (create-ticket.py 86-88) in main's try (159-168):
\* git push -u origin <name> with check=True; --no-pr returns after the push.
CtPushBranch ==
  /\ ct_pc = "push"
  /\ ct_calls' = Append(ct_calls, "git push")
  /\ \E returncode \in {0, 128} :
       IF returncode = 0
         THEN /\ ct_world' = [ct_world EXCEPT !.pushed = @ \cup {ct_branch_name}]
              /\ IF ct_args.no_pr
                   THEN CtReturn(<<"Pushing to GitHub", "Pushed to origin">>)
                   ELSE /\ ct_pc' = "pull_request"
                        /\ ct_out' = ct_out \o <<"Pushing to GitHub", "Pushed to origin">>
                        /\ UNCHANGED ct_exit_code
         ELSE /\ CtExit(<<"Pushing to GitHub", "Failed to push">>)
              /\ UNCHANGED ct_world
  /\ UNCHANGED <<ct_args, ct_env, ct_ticket, ct_branch_name,
                 orchVars, fnVars, peerVars, ftVars, teVars>>

\* create_pull_request (create-ticket.py 91-116) and the rest of main
\* (170-182): gh pr create, no check=True, so a non-zero return code prints
\* and gives None; main then prints the summary and returns.
CtCreatePullRequest ==
  /\ ct_pc = "pull_request"
  /\ ct_env.gh_installed
  /\ ct_calls' = Append(ct_calls, "gh pr create")
  /\ \E returncode \in {0, 1} :
       IF returncode = 0
         THEN /\ ct_world' = [ct_world EXCEPT !.prs = @ \cup {ct_branch_name}]
              /\ CtReturn(<<"Creating Pull Request", "Created PR", "Complete!">>)
         ELSE /\ CtReturn(<<"Creating Pull Request", "PR creation failed",
                            "Skipping PR creation", "Complete!">>)
              /\ UNCHANGED ct_world
  /\ UNCHANGED <<ct_args, ct_env, ct_ticket, ct_branch_name,
                 orchVars, fnVars, peerVars, ftVars, teVars>>

\* subprocess.run(["gh", ...]) (create-ticket.py 106-110) when gh cannot be
\* started: FileNotFoundError, which neither create_pull_request nor main
\* catches.
CtCreatePullRequestRaises ==
  /\ ct_pc = "pull_request"
  /\ ~ct_env.gh_installed
  /\ ct_calls' = Append(ct_calls, "gh pr create")
  /\ CtCrash("FileNotFoundError")
  /\ UNCHANGED <<ct_args, ct_env, ct_ticket, ct_branch_name, ct_world,
                 orchVars, fnVars, peerVars, ftVars, teVars>>

CtInit ==
  /\ OrchIdle
  /\ FnIdle
  /\ PeerIdle
  /\ FtIdle
  /\ TeIdle
  /\ ct_args \in CtArgSets
  /\ ct_env \in CtEnvs
  /\ ct_pc = "config"
  /\ ct_ticket = None
  /\ ct_branch_name = NoBranch
  /\ ct_world = EmptyWorld
  /\ ct_calls = <<>>
  /\ ct_out = <<>>
  /\ ct_exit_code = -1

CtNext ==
  \/ CtGetConfig
  \/ CtCreateTicket
  \/ CtCreateTicketRaises
  \/ CtCreateBranch
  \/ CtPushBranch
  \/ CtCreatePullRequest
  \/ CtCreatePullRequestRaises

SpecCreate == CtInit /\ [][CtNext]_vars

(***************************************************************************)
(* Claims about create-ticket, under SpecCreate.                           *)
(***************************************************************************)
CtSteps == <<"POST issue", "git checkout -b", "git push", "gh pr create">>
CtCalled(c) == \E i \in DOMAIN ct_calls : ct_calls[i] = c
CtPrinted(t) == \E i \in DOMAIN ct_out : ct_out[i] = t
CtEnded == ct_pc \in {"done", "exited", "crashed"}

\* The steps that ran are the first steps of the fixed order, each once.
CtStepsInOrder ==
  /\ Len(ct_calls) <= Len(CtSteps)
  /\ ct_calls = SubSeq(CtSteps, 1, Len(ct_calls))

\* Each later step runs only if every earlier one succeeded.
CtStepsGated ==
  /\ CtCalled("git checkout -b") => ct_ticket # None /\ ct_ticket \in ct_world.tickets
  /\ CtCalled("git push") => ct_branch_name # NoBranch /\ ct_branch_name \in ct_world.branches
  /\ CtCalled("gh pr create") => ct_branch_name \in ct_world.pushed

\* --no-branch skips branch, push and pull request; --no-pr skips only the
\* pull request.
CtSwitches ==
  /\ ct_args.no_branch => Len(ct_calls) <= 1
  /\ ct_args.no_branch /\ ct_ticket # None => ct_pc = "done" /\ ct_exit_code = 0
  /\ ct_args.no_pr => ~CtCalled("gh pr create")
  /\ ct_args.no_pr /\ ~ct_args.no_branch /\ ct_pc = "done" =>
       ct_calls = SubSeq(CtSteps, 1, 3) /\ ct_branch_name \in ct_world.pushed

\* A branch or push failure exits non-zero and leaves the ticket.
CtGitFailureExits ==
  CtPrinted("Failed to create branch") \/ CtPrinted("Failed to push") =>
    /\ ct_pc = "exited"
    /\ ct_exit_code = 1
    /\ ct_ticket \in ct_world.tickets
    /\ ~CtCalled("gh pr create")

\* Once the pull request was attempted, the run ends with exit status 0
\* whether or not a pull request exists.
CtPullRequestNotFatal ==
  CtCalled("gh pr create") /\ CtEnded => ct_pc = "done" /\ ct_exit_code = 0

\* C23: in create-ticket the steps run in the order create ticket, create
\* branch, push, open pull request, each only if every earlier one succeeded;
\* --no-branch skips branch, push and pull request, --no-pr only the pull
\* request; a pull-request failure is not fatal; a branch or push failure
\* exits non-zero without undoing the created ticket.
C23_CreateTicketSteps ==
  /\ CtStepsInOrder
  /\ CtStepsGated
  /\ CtSwitches
  /\ CtGitFailureExits
  /\ CtPullRequestNotFatal

\* The part of C23 the code keeps: everything but the pull request that
\* cannot be attempted.
C23_ExceptMissingGh ==
  /\ CtStepsInOrder
  /\ CtStepsGated
  /\ CtSwitches
  /\ CtGitFailureExits
  /\ ct_env.gh_installed => CtPullRequestNotFatal

\* A run whose ticket, branch and push succeeded and whose pull request
\* failed with a return code: it ends with exit status 0.
C23_PullRequestFailed ==
  /\ ct_pc = "done"
  /\ CtPrinted("PR creation failed")
  /\ ct_branch_name \in ct_world.pushed
  /\ ct_world.prs = {}

(***************************************************************************)
(* test-endpoint.py: send one request, print the response, exit with a     *)
(* status that tells whether it succeeded.                                 *)
(***************************************************************************)
\* A --headers, --data or --params argument: not given, a JSON object, or a
\* string json.loads rejects.
JsonArgs == {None, "object", "not json"}
TeArgSets == [headers : JsonArgs, data : JsonArgs, params : JsonArgs]

\* Status codes on both sides of each boundary make_request and main test.
OkStatus == 200
NoContent == 204
Redirect == 301
LastBelowError == 399
ErrorThreshold == 400
LastServerError == 599
TeStatusCodes ==
  {OkStatus, NoContent, Redirect, LastBelowError, ErrorThreshold, NotFound,
   ServerError, LastServerError}

\* A response: its status code and whether its body is JSON.
TeResponses == [status_code : TeStatusCodes, json : BOOLEAN]

\* What requests.request raises instead of answering.
TeRequestErrors == {"ConnectionError", "Timeout"}

\* What response.json() raises for a body that is not JSON, by the installed
\* requests and JSON libraries: json.JSONDecodeError or a subclass of it; the
\* requests.exceptions.JSONDecodeError built on simplejson's, which is a
\* RequestException and no json.JSONDecodeError; simplejson's own, which is
\* neither.
JsonErrors ==
  {"json.JSONDecodeError", "requests.exceptions.JSONDecodeError",
   "simplejson.JSONDecodeError"}

\* sys.exit(code)
TeExit(code, printed) ==
  /\ te_pc' = IF code = 0 THEN "done" ELSE "exited"
  /\ te_exit_code' = code
  /\ te_out' = te_out \o printed

\* parse_json_arg on --headers, --data and --params (test-endpoint.py 34-42,
\* 188-190): a string that is not JSON ends the run with status 1.
TeParseArgs ==
  /\ te_pc = "parse"
  /\ IF "not json" \in {te_args.headers, te_args.data, te_args.params}
       THEN TeExit(1, <<"Error parsing JSON">>)
       ELSE /\ te_pc' = "request"
            /\ UNCHANGED <<te_out, te_exit_code>>
  /\ UNCHANGED <<te_args, te_response, te_status_code,
                 orchVars, fnVars, peerVars, ftVars, ctVars>>

\* The request details and requests.request answering (test-endpoint.py
\* 55-95).
TeRequest ==
  /\ te_pc = "request"
  /\ \E response \in TeResponses : te_response' = response
  /\ te_out' = te_out \o <<"Sending request", "Status Code">>
  /\ te_pc' = "received"
  /\ UNCHANGED <<te_args, te_status_code, te_exit_code,
                 orchVars, fnVars, peerVars, ftVars, ctVars>>

\* except RequestException: print, return None (test-endpoint.py 134-137).
RequestFailed ==
  /\ te_status_code' = ReturnedNone
  /\ te_pc' = "returned"

\* requests.request raises (test-endpoint.py 85-92, 134-137).
TeRequestRaises ==
  /\ te_pc = "request"
  /\ \E e \in TeRequestErrors :
       te_out' = te_out \o <<"Sending request", "Request failed", e>>
  /\ RequestFailed
  /\ UNCHANGED <<te_args, te_response, te_exit_code,
                 orchVars, fnVars, peerVars, ftVars, ctVars>>

\* The success/failure indicator (test-endpoint.py 124-129).
Indicator(status_code) ==
  IF 200 <= status_code /\ status_code < 300 THEN <<"Request successful!">>
  ELSE IF 400 <= status_code /\ status_code < 500 THEN <<"Client error">>
  ELSE IF 500 <= status_code /\ status_code < 600 THEN <<"Server error">>
  ELSE <<>>

\* The rest of the try block (test-endpoint.py 96-132): body, timing, rate
\* limits, indicator, return response.status_code.
ReturnStatus(printed) ==
  /\ te_out' = te_out \o printed \o <<"Timing">> \o Indicator(te_response.status_code)
  /\ te_status_code' = te_response.status_code
  /\ te_pc' = "returned"
  /\ UNCHANGED te_exit_code

\* The response body (test-endpoint.py 101-107) and what follows it: only
\* json.JSONDecodeError is caught at the body; a RequestException reaches the
\* handler of the whole try block; anything else leaves make_request.
TeDisplay ==
  /\ te_pc = "received"
  /\ IF te_response.json
       THEN ReturnStatus(<<"Response Body", "json.dumps(json_response)">>)
       ELSE \E raised \in JsonErrors :
              CASE raised = "json.JSONDecodeError" ->
                     ReturnStatus(<<"Response Body", "response.text">>)
                [] raised = "requests.exceptions.JSONDecodeError" ->
                     /\ te_out' = te_out \o <<"Response Body", "Request failed", raised>>
                     /\ RequestFailed
                     /\ UNCHANGED te_exit_code
                [] raised = "simplejson.JSONDecodeError" ->
                     /\ te_out' = te_out \o <<"Response Body", raised>>
                     /\ te_pc' = "crashed"
                     /\ te_exit_code' = 1
                     /\ UNCHANGED te_status_code
  /\ UNCHANGED <<te_args, te_response,
                 orchVars, fnVars, peerVars, ftVars, ctVars>>

\* main's exit status (test-endpoint.py 202-208).
TeMainExit ==
  /\ te_pc = "returned"
  /\ IF te_status_code = ReturnedNone THEN TeExit(1, <<>>)
     ELSE IF te_status_code >= ErrorThreshold THEN TeExit(1, <<>>)
     ELSE TeExit(0, <<>>)
  /\ UNCHANGED <<te_args, te_response, te_status_code,
                 orchVars, fnVars, peerVars, ftVars, ctVars>>

TeInit ==
  /\ OrchIdle
  /\ FnIdle
  /\ PeerIdle
  /\ FtIdle
  /\ CtIdle
  /\ te_args \in TeArgSets
  /\ te_pc = "parse"
  /\ te_response = <<>>
  /\ te_status_code = ReturnedNone
  /\ te_out = <<>>
  /\ te_exit_code = -1

TeNext ==
  \/ TeParseArgs
  \/ TeRequest
  \/ TeRequestRaises
  \/ TeDisplay
  \/ TeMainExit

SpecEndpoint == TeInit /\ [][TeNext]_vars

(***************************************************************************)
(* Claims about the endpoint tester, under SpecEndpoint.                   *)
(***************************************************************************)
TePrinted(t) == \E i \in DOMAIN te_out : te_out[i] = t
TeEnded == te_pc \in {"done", "exited", "crashed"}

\* requests.request returned a response.
Received == TePrinted("Status Code")

\* make_request returned, or was never called.
MakeRequestOver == te_pc \in {"returned", "done", "exited"}

ExitMatchesStatus ==
  TeEnded =>
    /\ te_exit_code = 0 <=> (Received /\ te_response.status_code < ErrorThreshold)
    /\ (~Received \/ te_response.status_code >= ErrorThreshold) => te_exit_code = 1

ReturnMatchesResponse ==
  MakeRequestOver =>
    IF Received THEN te_status_code = te_response.status_code
                ELSE te_status_code = ReturnedNone

\* C24: the endpoint tester exits 0 exactly when the request completed with a
\* status code below 400, and 1 when it raised a transport error or completed
\* with 400 or above; make_request returns the status code exactly when a
\* response was received, and None otherwise.
C24_ExitTellsStatus == ExitMatchesStatus /\ ReturnMatchesResponse

\* The same for the runs in which a body that is not JSON is printed as text,
\* that is, in which response.json() raised a json.JSONDecodeError.
C24_WhenDecodeErrorIsCaught ==
  (Received /\ ~te_response.json /\ te_pc # "received" => TePrinted("response.text"))
    => C24_ExitTellsStatus

\* A response with status 200 and a body that is not JSON, reported as a
\* failed request: make_request returned None and the run exited 1.
C24_OkReportedAsFailure ==
  /\ te_pc = "exited"
  /\ Received
  /\ te_response.status_code = OkStatus
  /\ te_status_code = ReturnedNone
  /\ te_exit_code = 1

(***************************************************************************)
(* The branch name create-ticket.py gives a ticket, and the one            *)
(* start-work.py gives the same ticket.                                    *)
(***************************************************************************)
LowerKey == <<"s","a","m","1","-","2">>
NameInputs == [ticket_key : {TicketKey, LowerKey}, summary : SlugInputs]

NamesInit ==
  /\ OrchIdle
  /\ PeerIdle
  /\ FtIdle
  /\ CtIdle
  /\ TeIdle
  /\ fn_pc = "names"
  /\ fn_in \in NameInputs
  /\ fn_out = <<>>
  /\ fn_again = <<>>

\* create-ticket.py: create_branch(ticket['key'], args.summary)
CreateTicketNames ==
  /\ fn_pc = "names"
  /\ fn_out' = full_branch_name(fn_in.ticket_key, fn_in.summary)
  /\ fn_pc' = "created"
  /\ UNCHANGED <<fn_in, fn_again, orchVars, peerVars, ftVars, ctVars, teVars>>

\* start-work.py: create_branch(args.ticket, summary, branch_type) with the
\* summary the tracker holds and branch type 'feature'.
StartWorkNames ==
  /\ fn_pc = "created"
  /\ fn_again' = BranchName(fn_in.ticket_key, fn_in.summary, Feature)
  /\ fn_pc' = "started"
  /\ UNCHANGED <<fn_in, fn_out, orchVars, peerVars, ftVars, ctVars, teVars>>

NamesNext == CreateTicketNames \/ StartWorkNames

SpecNames == NamesInit /\ [][NamesNext]_vars

\* C25: for every ticket key and summary, the branch name create-ticket's
\* create_branch derives equals the one start-work's create_branch derives
\* with branch type 'feature', so start-work finds the branch create-ticket
\* made instead of creating a second one.
C25_SameBranchName == fn_pc = "started" => fn_again = fn_out

\* On summaries of ASCII letters, digits and punctuation that both scripts
\* drop, the two names are the same.
C25_AgreeOnPlainSummaries ==
  fn_pc = "started" /\ (\A i \in DOMAIN fn_in.summary : fn_in.summary[i] \in {"a", "B", "7", "!"})
    => fn_again = fn_out

\* Summary "a_a": start-work keeps the underscore, create-ticket drops it,
\* and the two names differ.
C25_UnderscoreDiffers ==
  /\ fn_pc = "started"
  /\ fn_in.summary = <<"a", "_", "a">>
  /\ fn_out # fn_again

====
